---- MODULE Spec2Model ----
(***************************************************************************)
(* Reconciliation plugins of sp-vm (src/services/apps/*/main.py and        *)
(* swarm-scripts/apps/*/main.py).  Every plugin is a set of command        *)
(* handlers (init, apply, health, finalize, destroy); one invocation of a  *)
(* handler is one reconciliation round: it reads a StateView (state_json)  *)
(* and the node's carry-forward local_state and returns a PluginOutput     *)
(* (status, error_message, node_properties, cluster_properties,            *)
(* local_state).  One action of this module is one whole round.            *)
(*                                                                         *)
(* External commands (systemctl, kubectl, redis-cli, cockroach, ...) are   *)
(* nondeterministic: every round draws an outcome record `o` that says     *)
(* which of the commands it reaches succeed.                               *)
(***************************************************************************)
EXTENDS Integers, Sequences, FiniteSets, TLC

VARIABLES
    service,            \* the plugin under study in this behaviour
    clusterNodes,       \* StateView: node ids of the intended members
    leader_node,        \* StateView: cluster.leader_node
    wgNodeProperties,   \* StateView: WireGuard properties {node_id, name, value}
    nodeProperties,     \* StateView: the node properties of the plugins {node_id, name, value}
    clusterProperties,  \* StateView: cluster-scoped properties {name, value}
    swarm,              \* StateView: the rest (globalId, swarmSecrets, nodeAddrs, knotCluster)
    local_state,        \* carry-forward local_state of every node
    host,               \* per node: the local machine (unit active, files on disk)
    managed,            \* the managed service's own cluster state, shared by the nodes
    rounds,             \* the last two rounds of the node that ran last, oldest first
    roundNo,            \* number of rounds run so far
    sched,              \* round-robin schedule: who ran in this sweep, last statuses
    envSteps            \* number of changes the environment has made

vars == <<service, clusterNodes, leader_node, wgNodeProperties, nodeProperties,
          clusterProperties, swarm, local_state, host, managed, rounds, roundNo,
          sched, envSteps>>

(***************************************************************************)
(* Bounds and universes                                                    *)
(***************************************************************************)
Nodes == {"A", "B", "C"}

\* changes of membership, leadership, tunnel addresses and crashes per behaviour
MaxEnvSteps == 1

\* the runtime runs at most this many rounds
MaxRounds == 3

\* sweeps of a round-robin schedule are counted up to this number
MaxSweeps == 4

None == "None"          \* Python's None
EmptyDict == << >>      \* Python's {}

Falsy(v) == v = None \/ v = ""

\* {**d, **u}
Update(d, u) == u @@ d

Prop(n, name, v) == [node_id |-> n, name |-> name, value |-> v]

Call(op, arg, ok) == [op |-> op, arg |-> arg, ok |-> ok]

CallsOf(r, op) == {i \in 1..Len(r.calls) : r.calls[i].op = op}

Called(r, op) == CallsOf(r, op) # {}

\* a tunnel address is absent, empty or the node's address
TunnelIpOf(n) == "10.0.0." \o n

(***************************************************************************)
(* PluginOutput, and what the host runtime does with it: the local_state   *)
(* is handed to the next round of the node, a node property with a value   *)
(* replaces the stored one, a node property of None retracts it.           *)
(***************************************************************************)
PluginOutput(status, error_message, node_properties, cluster_properties, ls) ==
    [status |-> status, error_message |-> error_message,
     node_properties |-> node_properties,
     cluster_properties |-> cluster_properties, local_state |-> ls]

Published(store, n, np) ==
    {p \in store : ~(p.node_id = n /\ p.name \in DOMAIN np)}
        \cup {Prop(n, k, np[k]) : k \in {j \in DOMAIN np : np[j] # None}}

PublishedCluster(store, cp) ==
    {p \in store : p.name \notin DOMAIN cp}
        \cup {[name |-> k, value |-> cp[k]] : k \in {j \in DOMAIN cp : cp[j] # None}}

Push(h, r) ==
    IF h = << >> \/ h[Len(h)].node # r.node THEN <<r>> ELSE <<h[Len(h)], r>>

Last(h) == h[Len(h)]

\* everything a StateView is drawn from, with the given published properties
View(np, cp) ==
    [clusterNodes |-> clusterNodes, leader_node |-> leader_node,
     wgNodeProperties |-> wgNodeProperties, nodeProperties |-> np,
     clusterProperties |-> cp, swarm |-> swarm]

\* the round record kept in rounds: the input, the output, the commands
\* issued, and the view before and after the round's own publications
Round(cmd, n, state_json, ls, res) ==
    [service |-> service, cmd |-> cmd, node |-> n, state |-> state_json,
     in_local_state |-> ls, in_managed |-> managed,
     view |-> View(nodeProperties, clusterProperties),
     view_after |-> View(Published(nodeProperties, n, res.out.node_properties),
                         PublishedCluster(clusterProperties, res.out.cluster_properties)),
     status |-> res.out.status, error_message |-> res.out.error_message,
     node_properties |-> res.out.node_properties,
     cluster_properties |-> res.out.cluster_properties,
     local_state |-> res.out.local_state, calls |-> res.calls]

\* the effect of one round of node n: res = [out, calls, host, managed]
Effect(cmd, n, state_json, res) ==
    /\ rounds' = Push(rounds, Round(cmd, n, state_json, local_state[n], res))
    /\ local_state' = [local_state EXCEPT ![n] = res.out.local_state]
    /\ nodeProperties' = Published(nodeProperties, n, res.out.node_properties)
    /\ clusterProperties' = PublishedCluster(clusterProperties, res.out.cluster_properties)
    /\ host' = [host EXCEPT ![n] = res.host]
    /\ managed' = res.managed
    /\ UNCHANGED <<service, clusterNodes, leader_node, wgNodeProperties, swarm, envSteps>>

\* one round of node n, run at any time
Commit(cmd, n, state_json, res) ==
    /\ roundNo < MaxRounds
    /\ roundNo' = roundNo + 1
    /\ Effect(cmd, n, state_json, res)
    /\ UNCHANGED sched

NoSchedule == [ran |-> {}, status |-> [n \in Nodes |-> None]]

\* one round of member n under a round-robin schedule: every member runs
\* once per sweep; roundNo counts the completed sweeps
CommitInSweep(cmd, n, state_json, res) ==
    /\ n \in clusterNodes \ sched.ran
    /\ Effect(cmd, n, state_json, res)
    /\ sched' = [ran |-> IF sched.ran \cup {n} = clusterNodes THEN {}
                         ELSE sched.ran \cup {n},
                 status |-> [sched.status EXCEPT ![n] = res.out.status]]
    /\ roundNo' = IF sched.ran \cup {n} = clusterNodes /\ roundNo < MaxSweeps
                  THEN roundNo + 1 ELSE roundNo

(***************************************************************************)
(* Helpers every plugin repeats                                            *)
(***************************************************************************)
get_node_tunnel_ip(node_id, wg_props) ==
    IF \E p \in wg_props : p.node_id = node_id /\ p.name = "tunnel_ip"
    THEN (CHOOSE p \in wg_props : p.node_id = node_id /\ p.name = "tunnel_ip").value
    ELSE None

\* a variant that is satisfied by one member with a tunnel address
check_all_nodes_have_wg_some(cluster_nodes, wg_props) ==
    \E node_id \in cluster_nodes : ~Falsy(get_node_tunnel_ip(node_id, wg_props))

check_all_nodes_have_wg(cluster_nodes, wg_props) ==
    \A n \in cluster_nodes : ~Falsy(get_node_tunnel_ip(n, wg_props))

\* the leader taken to be the node that led when the cluster was set up
get_leader_node_first(state_json) == "A"

get_leader_node(state_json) == state_json.cluster.leader_node

hash_node_id(node_id) == "md5:" \o node_id

\* the payload that is hashed: sha256 is taken to be injective on it
compute_install_hash(state_json) ==
    [node_ids |-> state_json.clusterNodes,
     wg_addresses |->
        {<<hash_node_id(n),
           IF \E p \in state_json.wgNodeProperties : p.node_id = n /\ p.name = "tunnel_ip"
           THEN get_node_tunnel_ip(n, state_json.wgNodeProperties) ELSE "unknown">> :
         n \in state_json.clusterNodes}]

\* local_state.get(k) of a boolean entry
Truthy(ls, k) == k \in DOMAIN ls /\ ls[k] = TRUE

(***************************************************************************)
(* The environment: membership, leadership and tunnel addresses come from  *)
(* outside; a unit may stop.                                               *)
(***************************************************************************)
MemberLeaves(n) ==
    /\ envSteps < MaxEnvSteps
    /\ n \in clusterNodes
    /\ n # leader_node
    /\ clusterNodes' = clusterNodes \ {n}
    /\ envSteps' = envSteps + 1
    /\ UNCHANGED <<service, leader_node, wgNodeProperties, nodeProperties,
                   clusterProperties, swarm, local_state, host, managed, rounds, roundNo, sched>>

MemberJoins(n) ==
    /\ envSteps < MaxEnvSteps
    /\ n \notin clusterNodes
    /\ clusterNodes' = clusterNodes \cup {n}
    /\ envSteps' = envSteps + 1
    /\ UNCHANGED <<service, leader_node, wgNodeProperties, nodeProperties,
                   clusterProperties, swarm, local_state, host, managed, rounds, roundNo, sched>>

LeaderChanges(n) ==
    /\ envSteps < MaxEnvSteps
    /\ n # leader_node
    /\ leader_node' = n
    /\ envSteps' = envSteps + 1
    /\ UNCHANGED <<service, clusterNodes, wgNodeProperties, nodeProperties,
                   clusterProperties, swarm, local_state, host, managed, rounds, roundNo, sched>>

TunnelIpChanges(n, v) ==
    /\ envSteps < MaxEnvSteps
    /\ get_node_tunnel_ip(n, wgNodeProperties) # v
    /\ wgNodeProperties' = Published(wgNodeProperties, n, "tunnel_ip" :> v)
    /\ envSteps' = envSteps + 1
    /\ UNCHANGED <<service, clusterNodes, leader_node, nodeProperties,
                   clusterProperties, swarm, local_state, host, managed, rounds, roundNo, sched>>

UnitStops(n) ==
    /\ envSteps < MaxEnvSteps
    /\ host[n].active
    /\ host' = [host EXCEPT ![n].active = FALSE]
    /\ envSteps' = envSteps + 1
    /\ UNCHANGED <<service, clusterNodes, leader_node, wgNodeProperties, nodeProperties,
                   clusterProperties, swarm, local_state, managed, rounds, roundNo, sched>>

AllTunnelIps == {Prop(n, "tunnel_ip", TunnelIpOf(n)) : n \in Nodes}

NoSwarm == [globalId |-> None]

(***************************************************************************)
(* RKE2 (src/services/apps/rke2/main.py)                                   *)
(* host[n] = [active, kubeconfig]: rke2-server is active, rke2.yaml exists *)
(* managed = [k8s_nodes]: the node names registered in Kubernetes          *)
(***************************************************************************)
rke2_state_json ==
    [clusterNodes |-> clusterNodes, cluster |-> [leader_node |-> leader_node],
     wgNodeProperties |-> wgNodeProperties, rke2NodeProperties |-> nodeProperties]

is_bootstrap_done(rke2_props) ==
    \E p \in rke2_props : p.name = "k8s_bootstrap_done" /\ p.value = "true"

\* kubectl get nodes: [] without a kubeconfig or when the three attempts fail
get_k8s_nodes(hst, k8s, o) ==
    IF hst.kubeconfig /\ o.list_ok THEN k8s.k8s_nodes ELSE {}

\* kubectl cordon / drain / delete node: false without rke2.yaml, else the
\* command's exit status
cordon_node(hst, node_id, o) == hst.kubeconfig /\ node_id \in o.cordon_ok

drain_node(hst, node_id, o) == hst.kubeconfig /\ node_id \in o.drain_ok

delete_node(hst, node_id, o) == hst.kubeconfig /\ node_id \in o.delete_ok

\* the commands issued for one disappeared member that is still registered:
\* every step is attempted whatever the one before it returned
rke2_remove_steps_stop_on_failure(hst, node_id, o) ==
    LET node_name == hash_node_id(node_id)
        cordoned == <<Call("cordon_node", node_name, cordon_node(hst, node_id, o))>>
        drained == <<Call("drain_node", node_name, drain_node(hst, node_id, o))>>
        deleted == <<Call("delete_node", node_name, delete_node(hst, node_id, o))>>
    IN  IF ~cordon_node(hst, node_id, o) THEN cordoned
        ELSE IF ~drain_node(hst, node_id, o) THEN cordoned \o drained
        ELSE cordoned \o drained \o deleted

rke2_remove_steps(hst, node_id, o) ==
    LET node_name == hash_node_id(node_id)
    IN  <<Call("cordon_node", node_name, cordon_node(hst, node_id, o)),
          Call("drain_node", node_name, drain_node(hst, node_id, o)),
          Call("delete_node", node_name, delete_node(hst, node_id, o))>>

\* the loop body of remove_stale_nodes, for the disappeared ids still to visit
RECURSIVE rke2_remove_loop(_, _, _, _, _)
rke2_remove_loop(todo, k8s_nodes, hst, o, acc) ==
    IF todo = {} THEN acc
    ELSE LET node_id == CHOOSE x \in todo : TRUE
             node_name == hash_node_id(node_id)
         IN  IF node_name \notin k8s_nodes
             THEN rke2_remove_loop(todo \ {node_id}, k8s_nodes, hst, o,
                    [acc EXCEPT !.removed = @ \cup {node_name}])
             ELSE LET deleted == delete_node(hst, node_id, o)
                      steps == rke2_remove_steps(hst, node_id, o)
                  IN  rke2_remove_loop(todo \ {node_id}, k8s_nodes, hst, o,
                        [removed |-> IF deleted THEN acc.removed \cup {node_name}
                                     ELSE acc.removed,
                         calls |-> acc.calls \o steps,
                         k8s_nodes |-> IF deleted THEN acc.k8s_nodes \ {node_name}
                                       ELSE acc.k8s_nodes])

\* lines 469-516 of remove_stale_nodes, given the ids found to have disappeared;
\* returns [success, removed, calls, k8s_nodes]
rke2_remove(disappeared_node_ids, previous_node_ids, hst, k8s, o) ==
    LET k8s_nodes == get_k8s_nodes(hst, k8s, o)
        listed == <<Call("get_k8s_nodes", "", k8s_nodes # {})>>
        nothing == [success |-> TRUE, removed |-> {}, calls |-> << >>,
                    k8s_nodes |-> k8s.k8s_nodes]
    IN  IF disappeared_node_ids = {} THEN nothing
        ELSE IF k8s_nodes = {} /\ previous_node_ids # {}
        THEN [nothing EXCEPT !.calls = listed]
        ELSE LET done == rke2_remove_loop(disappeared_node_ids, k8s_nodes, hst, o,
                            [removed |-> {}, calls |-> listed,
                             k8s_nodes |-> k8s.k8s_nodes])
             IN  [success |-> TRUE, removed |-> done.removed, calls |-> done.calls,
                  k8s_nodes |-> done.k8s_nodes]

known_node_ids(ls) ==
    IF "known_node_ids" \in DOMAIN ls THEN ls["known_node_ids"] ELSE {}

\* the recorded member ids left as they were
rke2_refresh_known_kept(ls, current_node_ids) == ls

\* {**local_state, "known_node_ids": current_node_ids}
rke2_refresh_known(ls, current_node_ids) ==
    Update(ls, [known_node_ids |-> current_node_ids])

remove_stale_nodes_every_known(cluster_nodes, ls, hst, k8s, o) ==
    rke2_remove(known_node_ids(ls), known_node_ids(ls), hst, k8s, o)

remove_stale_nodes(cluster_nodes, ls, hst, k8s, o) ==
    LET current_node_ids == cluster_nodes
        previous_node_ids == known_node_ids(ls)
        disappeared_node_ids == previous_node_ids \ current_node_ids
    IN  rke2_remove(disappeared_node_ids, previous_node_ids, hst, k8s, o)

\* lines 646-712 of handle_apply: write the configuration, start, wait, publish
rke2_apply_reconfigure(local_node_id, state_json, ls, hst, k8s, o, is_bootstrap, bootstrap_done, install_hash, current_node_ids, calls0) ==
    LET wrote == calls0 \o <<Call("write_rke2_config", local_node_id, o.fail # "write")>>
        enabled == wrote \o <<Call("systemctl", "enable", o.fail # "enable")>>
        started == enabled \o <<Call("systemctl", "start", o.fail # "start")>>
        hst1 == [active |-> TRUE, kubeconfig |-> hst.kubeconfig \/ o.kubeconfig_appears]
        api_ready == hst1.kubeconfig /\ o.fail # "api"
        waited == started \o <<Call("wait_for_api_ready", "", api_ready)>>
        k8s1 == [k8s_nodes |-> k8s.k8s_nodes \cup {hash_node_id(local_node_id)}]
        new_local_state ==
            Update(ls, [install_hash |-> install_hash, api_ready |-> api_ready,
                        role |-> "server", is_bootstrap |-> is_bootstrap,
                        known_node_ids |-> current_node_ids])
        kubeconfig == IF hst1.kubeconfig THEN "kubeconfig:" \o local_node_id ELSE None
        node_properties ==
            ("k8s_node_id" :> hash_node_id(local_node_id))
            @@ ("k8s_node_ready" :> "true")
            @@ (IF is_bootstrap /\ ~bootstrap_done
                THEN ("k8s_bootstrap_done" :> "true") ELSE EmptyDict)
            @@ (IF kubeconfig # None THEN ("k8s_kubeconfig" :> kubeconfig) ELSE EmptyDict)
    IN  IF o.fail = "write"
        THEN [out |-> PluginOutput("error", "Failed to write config", EmptyDict, EmptyDict, ls),
              calls |-> wrote, host |-> hst, managed |-> k8s]
        ELSE IF o.fail = "enable"
        THEN [out |-> PluginOutput("error", "Failed to enable RKE2", EmptyDict, EmptyDict, ls),
              calls |-> enabled, host |-> hst, managed |-> k8s]
        ELSE IF o.fail = "start"
        THEN [out |-> PluginOutput("error", "Failed to start RKE2", EmptyDict, EmptyDict, ls),
              calls |-> started, host |-> hst, managed |-> k8s]
        ELSE IF ~api_ready
        THEN [out |-> PluginOutput("postponed",
                        "RKE2 API did not become ready within timeout", EmptyDict, EmptyDict,
                        Update(ls, [install_hash |-> install_hash, api_ready |-> FALSE])),
              calls |-> waited, host |-> hst1, managed |-> k8s]
        ELSE [out |-> PluginOutput("completed", None, node_properties, EmptyDict,
                                   new_local_state),
              calls |-> waited, host |-> hst1, managed |-> k8s1]

\* a variant that takes the leadership from the stored is_bootstrap
rke2_reconciles_cached(is_bootstrap, ls) ==
    Truthy(ls, "is_bootstrap") /\ Truthy(ls, "api_ready")

\* `if is_bootstrap and local_state.get("api_ready")` of handle_apply
rke2_reconciles(is_bootstrap, ls) == is_bootstrap /\ Truthy(ls, "api_ready")

\* lines 617-644 of handle_apply: stale-node removal and the fingerprint check
rke2_apply_reconcile(local_node_id, state_json, ls, hst, k8s, o, is_bootstrap, bootstrap_done) ==
    LET cluster_nodes == state_json.clusterNodes
        install_hash == compute_install_hash(state_json)
        current_node_ids == cluster_nodes
        runs == rke2_reconciles(is_bootstrap, ls)
        stale == remove_stale_nodes(cluster_nodes, ls, hst, k8s, o)
        calls0 == IF runs THEN <<Call("remove_stale_nodes", "", TRUE)>> \o stale.calls ELSE << >>
        k8s0 == IF runs THEN [k8s_nodes |-> stale.k8s_nodes] ELSE k8s
    IN  IF runs /\ ~stale.success
        THEN [out |-> PluginOutput("postponed", "Failed to remove stale nodes from cluster",
                        EmptyDict, EmptyDict,
                        rke2_refresh_known(ls, current_node_ids)),
              calls |-> calls0, host |-> hst, managed |-> k8s0]
        ELSE IF "install_hash" \in DOMAIN ls /\ ls["install_hash"] = install_hash
                /\ Truthy(ls, "api_ready")
        THEN [out |-> PluginOutput("completed", None, EmptyDict, EmptyDict,
                        rke2_refresh_known(ls, current_node_ids)),
              calls |-> calls0, host |-> hst, managed |-> k8s0]
        ELSE rke2_apply_reconfigure(local_node_id, state_json, ls, hst, k8s0, o,
                                    is_bootstrap, bootstrap_done, install_hash,
                                    current_node_ids, calls0)

\* a variant that is satisfied by the k8s_node_ready of any node
rke2_leader_ready_any(rke2_props, leader_node_id) ==
    \E p \in rke2_props : p.name = "k8s_node_ready" /\ p.value = "true"

\* lines 575-581 of handle_apply: the leader has published k8s_node_ready
rke2_leader_ready(rke2_props, leader_node_id) ==
    \E p \in rke2_props :
        /\ p.node_id = leader_node_id
        /\ p.name = "k8s_node_ready" /\ p.value = "true"

rke2_handle_apply(local_node_id, state_json, ls, hst, k8s, o) ==
    LET cluster_nodes == state_json.clusterNodes
        rke2_props == state_json.rke2NodeProperties
        wg_props == state_json.wgNodeProperties
        leader_node_id == get_leader_node(state_json)
        is_bootstrap == leader_node_id = local_node_id
        bootstrap_done == is_bootstrap_done(rke2_props)
        leader_ready == rke2_leader_ready(rke2_props, leader_node_id)
        local_tunnel_ip == get_node_tunnel_ip(local_node_id, wg_props)
        stop(status, msg) ==
            [out |-> PluginOutput(status, msg, EmptyDict, EmptyDict, ls),
             calls |-> << >>, host |-> hst, managed |-> k8s]
    IN  IF ~check_all_nodes_have_wg(cluster_nodes, wg_props)
        THEN stop("postponed", "Waiting for WireGuard to be configured on all nodes")
        ELSE IF ~is_bootstrap /\ ~bootstrap_done
        THEN stop("postponed", "Waiting for bootstrap node to complete initialization")
        ELSE IF ~is_bootstrap /\ ~leader_ready
        THEN stop("postponed", "Waiting for bootstrap node to become ready")
        ELSE IF Falsy(local_tunnel_ip)
        THEN stop("error", "Local node has no WireGuard tunnel IP")
        ELSE IF ~is_bootstrap /\ leader_node_id # None
                /\ Falsy(get_node_tunnel_ip(leader_node_id, wg_props))
        THEN stop("postponed", "Bootstrap node has no WireGuard tunnel IP yet")
        ELSE rke2_apply_reconcile(local_node_id, state_json, ls, hst, k8s, o,
                                  is_bootstrap, bootstrap_done)

rke2_handle_health(local_node_id, state_json, ls, hst, k8s, o) ==
    LET stop(status, msg) ==
            [out |-> PluginOutput(status, msg, EmptyDict, EmptyDict, ls),
             calls |-> << >>, host |-> hst, managed |-> k8s]
        leader_node_id == get_leader_node(state_json)
        is_leader == leader_node_id = local_node_id
        cluster_nodes == state_json.clusterNodes
        current_node_ids == cluster_nodes
        stale == remove_stale_nodes(cluster_nodes, ls, hst, k8s, o)
        calls0 == <<Call("remove_stale_nodes", "", TRUE)>> \o stale.calls
    IN  IF o.fail = "status"
        THEN stop("error", "Failed to check service status")
        ELSE IF ~hst.active
        THEN stop("postponed", "Service status: inactive")
        ELSE IF ~hst.kubeconfig
        THEN stop("postponed", "Kubeconfig not found")
        ELSE IF o.fail = "api"
        THEN stop("postponed", "API server is not healthy")
        ELSE IF o.fail = "node_failed"
        THEN stop("error", "Failed to get node status")
        ELSE IF o.fail = "node_notready"
        THEN stop("postponed", "Node status: False")
        ELSE IF ~is_leader
        THEN stop("completed", None)
        ELSE IF ~stale.success
        THEN [out |-> PluginOutput("postponed", "Failed to remove stale nodes from cluster",
                        EmptyDict, EmptyDict,
                        rke2_refresh_known(ls, current_node_ids)),
              calls |-> calls0, host |-> hst, managed |-> [k8s_nodes |-> stale.k8s_nodes]]
        ELSE [out |-> PluginOutput("completed", None, EmptyDict, EmptyDict,
                        rke2_refresh_known(ls, current_node_ids)),
              calls |-> calls0, host |-> hst, managed |-> [k8s_nodes |-> stale.k8s_nodes]]

rke2_handle_destroy(local_node_id, state_json, ls, hst, k8s, o) ==
    IF o.raises
    THEN [out |-> PluginOutput("error", "Failed to destroy RKE2", EmptyDict, EmptyDict,
                               EmptyDict),
          calls |-> <<Call("systemctl", "stop", TRUE)>>, host |-> hst, managed |-> k8s]
    ELSE [out |-> PluginOutput("completed", None,
                    [k8s_node_id |-> None, k8s_node_ready |-> None,
                     k8s_bootstrap_done |-> None, k8s_kubeconfig |-> None],
                    EmptyDict, EmptyDict),
          calls |-> <<Call("systemctl", "stop", TRUE), Call("systemctl", "disable", TRUE)>>,
          host |-> [active |-> FALSE, kubeconfig |-> FALSE], managed |-> k8s]

\* the ids a round of n can try to remove
Rke2Disappeared(n) == known_node_ids(local_state[n]) \ clusterNodes

\* what the commands of one round do: the first step that fails, whether
\* rke2.yaml exists after the start, and what kubectl answers
Rke2Outcomes(n) ==
    [fail : {"none", "write", "enable", "start", "api"},
     kubeconfig_appears : IF host[n].kubeconfig THEN {TRUE} ELSE BOOLEAN,
     list_ok : IF Rke2Disappeared(n) = {} THEN {TRUE} ELSE BOOLEAN,
     cordon_ok : SUBSET Rke2Disappeared(n),
     drain_ok : SUBSET Rke2Disappeared(n),
     delete_ok : SUBSET Rke2Disappeared(n)]

Rke2Apply(n) ==
    /\ service = "rke2"
    /\ \E o \in Rke2Outcomes(n) :
         Commit("apply", n, rke2_state_json,
                rke2_handle_apply(n, rke2_state_json, local_state[n], host[n], managed, o))

Rke2HealthOutcomes(n) ==
    [fail : {"none", "status", "api", "node_failed", "node_notready"},
     list_ok : IF Rke2Disappeared(n) = {} THEN {TRUE} ELSE BOOLEAN,
     cordon_ok : SUBSET Rke2Disappeared(n),
     drain_ok : SUBSET Rke2Disappeared(n),
     delete_ok : SUBSET Rke2Disappeared(n)]

Rke2Health(n) ==
    /\ service = "rke2"
    /\ \E o \in Rke2HealthOutcomes(n) :
         Commit("health", n, rke2_state_json,
                rke2_handle_health(n, rke2_state_json, local_state[n], host[n], managed, o))

Rke2Destroy(n) ==
    /\ service = "rke2"
    /\ \E o \in [raises : BOOLEAN] :
         Commit("destroy", n, rke2_state_json,
                rke2_handle_destroy(n, rke2_state_json, local_state[n], host[n], managed, o))

InitRke2 ==
    /\ service = "rke2"
    /\ clusterNodes = Nodes
    /\ leader_node = "A"
    /\ wgNodeProperties = AllTunnelIps
    /\ nodeProperties = {}
    /\ clusterProperties = {}
    /\ swarm = NoSwarm
    /\ local_state = [n \in Nodes |-> EmptyDict]
    /\ host = [n \in Nodes |-> [active |-> FALSE, kubeconfig |-> FALSE]]
    /\ managed = [k8s_nodes |-> {}]
    /\ rounds = << >>
    /\ roundNo = 0
    /\ sched = NoSchedule
    /\ envSteps = 0

NextRke2 ==
    \/ \E n \in Nodes : Rke2Apply(n)
    \/ \E n \in Nodes : Rke2Health(n)
    \/ \E n \in Nodes : Rke2Destroy(n)
    \/ \E n \in Nodes : MemberLeaves(n)
    \/ \E n \in Nodes : TunnelIpChanges(n, None)

SpecRke2 == InitRke2 /\ [][NextRke2]_vars

(***************************************************************************)
(* CockroachDB (src/services/apps/cockroachdb/main.py)                     *)
(* host[n] = [active]: the cockroachdb unit is active                      *)
(* managed = [initialized]: `cockroach init` has been run on the cluster   *)
(***************************************************************************)
crdb_state_json ==
    [clusterNodes |-> clusterNodes, cluster |-> [leader_node |-> leader_node],
     wgNodeProperties |-> wgNodeProperties, cockroachNodeProperties |-> nodeProperties]

crdb_is_cluster_initialized(cockroach_props) ==
    \E p \in cockroach_props :
        p.name = "cockroachdb_cluster_initialized" /\ p.value = "true"

\* `cockroach init`: an already initialized cluster also counts as success
init_cluster(db, o) == o.fail # "init"

crdb_check_node_in_cluster(db, o) == o.fail # "status"

crdb_all_nodes_ready(cluster_nodes, cockroach_props) ==
    \A n \in cluster_nodes : \E p \in cockroach_props :
        p.node_id = n /\ p.name = "cockroachdb_node_ready" /\ p.value = "true"

\* a leader that bootstraps only once every member has published
\* cockroachdb_node_ready
crdb_bootstrap_gate_quorum(is_leader, cluster_initialized, cluster_nodes, cockroach_props) ==
    is_leader /\ ~cluster_initialized /\ crdb_all_nodes_ready(cluster_nodes, cockroach_props)

\* line 421: the condition under which the round runs init_cluster
\* a variant that lets any node bootstrap an uninitialized cluster
crdb_bootstrap_gate_any_node(is_leader, cluster_initialized, cluster_nodes, cockroach_props) ==
    ~cluster_initialized

crdb_bootstrap_gate(is_leader, cluster_initialized, cluster_nodes, cockroach_props) ==
    is_leader /\ ~cluster_initialized

\* a fingerprint check that never finds the configuration unchanged
crdb_unchanged_never(ls, install_hash) == FALSE

\* line 366: the recorded fingerprint equals the current one and the
\* instance was ready
crdb_unchanged(ls, install_hash) ==
    /\ "install_hash" \in DOMAIN ls
    /\ ls["install_hash"] = install_hash
    /\ Truthy(ls, "cockroach_ready")

\* lines 384-467 of handle_apply
crdb_apply_reconfigure(local_node_id, state_json, ls, hst, db, o, is_leader, cluster_initialized, install_hash) ==
    LET created == <<Call("create_systemd_service", local_node_id, o.fail # "service")>>
        enabled == created \o <<Call("systemctl", "enable", o.fail # "enable")>>
        restarted == enabled \o <<Call("systemctl", "restart", o.fail # "restart")>>
        cockroach_ready == o.fail # "ready"
        waited == restarted \o <<Call("wait_for_cockroach_ready", "", cockroach_ready)>>
        hst1 == [active |-> TRUE]
        new_local_state ==
            Update(ls, [install_hash |-> install_hash, cockroach_ready |-> cockroach_ready,
                        is_leader |-> is_leader])
        init_ok == init_cluster(db, o)
        inited == waited \o <<Call("init_cluster", "", init_ok)>>
        in_cluster == crdb_check_node_in_cluster(db, o)
        checked == waited \o <<Call("check_node_in_cluster", "", in_cluster)>>
        err(msg, calls) ==
            [out |-> PluginOutput("error", msg, EmptyDict, EmptyDict, ls),
             calls |-> calls, host |-> hst, managed |-> db]
    IN  IF o.fail = "service" THEN err("Failed to create service", created)
        ELSE IF o.fail = "enable" THEN err("Failed to enable CockroachDB", enabled)
        ELSE IF o.fail = "restart" THEN err("Failed to start CockroachDB", restarted)
        ELSE IF ~cockroach_ready
        THEN [out |-> PluginOutput("postponed",
                        "CockroachDB did not become ready within timeout", EmptyDict, EmptyDict,
                        Update(ls, [install_hash |-> install_hash, cockroach_ready |-> FALSE])),
              calls |-> waited, host |-> hst1, managed |-> db]
        ELSE IF crdb_bootstrap_gate(is_leader, cluster_initialized, state_json.clusterNodes, state_json.cockroachNodeProperties)
        THEN IF init_ok
             THEN [out |-> PluginOutput("completed", None,
                            [cockroachdb_cluster_initialized |-> "true",
                             cockroachdb_node_ready |-> "true"],
                            EmptyDict, new_local_state),
                   calls |-> inited, host |-> hst1, managed |-> [initialized |-> TRUE]]
             ELSE [out |-> PluginOutput("postponed", "Failed to initialize CockroachDB cluster",
                            EmptyDict, EmptyDict, new_local_state),
                   calls |-> inited, host |-> hst1, managed |-> db]
        ELSE IF cluster_initialized
        THEN IF in_cluster
             THEN [out |-> PluginOutput("completed", None,
                            [cockroachdb_node_ready |-> "true"], EmptyDict, new_local_state),
                   calls |-> checked, host |-> hst1, managed |-> db]
             ELSE [out |-> PluginOutput("postponed", "Node not in cluster yet",
                            EmptyDict, EmptyDict, new_local_state),
                   calls |-> checked, host |-> hst1, managed |-> db]
        ELSE [out |-> PluginOutput("postponed", "Waiting for leader node to initialize cluster",
                        EmptyDict, EmptyDict, new_local_state),
              calls |-> waited, host |-> hst1, managed |-> db]

crdb_handle_apply(local_node_id, state_json, ls, hst, db, o) ==
    LET cluster_nodes == state_json.clusterNodes
        cockroach_props == state_json.cockroachNodeProperties
        wg_props == state_json.wgNodeProperties
        leader_node_id == get_leader_node(state_json)
        is_leader == leader_node_id = local_node_id
        cluster_initialized == crdb_is_cluster_initialized(cockroach_props)
        local_tunnel_ip == get_node_tunnel_ip(local_node_id, wg_props)
        install_hash == compute_install_hash(state_json)
        stop(status, msg) ==
            [out |-> PluginOutput(status, msg, EmptyDict, EmptyDict, ls),
             calls |-> << >>, host |-> hst, managed |-> db]
    IN  IF ~check_all_nodes_have_wg(cluster_nodes, wg_props)
        THEN stop("postponed", "Waiting for WireGuard to be configured on all nodes")
        ELSE IF Cardinality(cluster_nodes) < 1
        THEN stop("postponed", "CockroachDB cluster requires at least 1 node")
        ELSE IF Falsy(local_tunnel_ip)
        THEN stop("error", "Local node has no WireGuard tunnel IP")
        ELSE IF crdb_unchanged(ls, install_hash)
        THEN stop("completed", None)
        ELSE crdb_apply_reconfigure(local_node_id, state_json, ls, hst, db, o, is_leader, cluster_initialized, install_hash)

\* a health check that runs the apply procedure, bootstrap included
crdb_handle_health_reforms(local_node_id, state_json, ls, hst, db, o) ==
    crdb_handle_apply(local_node_id, state_json, ls, hst, db, o)

crdb_handle_health(local_node_id, state_json, ls, hst, db, o) ==
    LET local_tunnel_ip == get_node_tunnel_ip(local_node_id, state_json.wgNodeProperties)
        stop(status, msg, calls) ==
            [out |-> PluginOutput(status, msg, EmptyDict, EmptyDict, ls),
             calls |-> calls, host |-> hst, managed |-> db]
        checked == <<Call("check_node_in_cluster", "", crdb_check_node_in_cluster(db, o))>>
    IN  IF o.fail = "is_active"
        THEN stop("error", "Failed to check service status", << >>)
        ELSE IF ~hst.active
        THEN stop("postponed", "Service status: inactive", << >>)
        ELSE IF ~Falsy(local_tunnel_ip) /\ ~crdb_check_node_in_cluster(db, o)
        THEN stop("error", "Failed to get node status", checked)
        ELSE stop("completed", None, IF Falsy(local_tunnel_ip) THEN << >> ELSE checked)

crdb_handle_destroy(local_node_id, state_json, ls, hst, db, o) ==
    IF o.raises
    THEN [out |-> PluginOutput("error", "Failed to destroy CockroachDB", EmptyDict, EmptyDict,
                               EmptyDict),
          calls |-> <<Call("systemctl", "stop", TRUE)>>, host |-> hst, managed |-> db]
    ELSE [out |-> PluginOutput("completed", None,
                    [cockroachdb_node_ready |-> None,
                     cockroachdb_cluster_initialized |-> None],
                    EmptyDict, EmptyDict),
          calls |-> <<Call("systemctl", "stop", TRUE), Call("systemctl", "disable", TRUE)>>,
          host |-> [active |-> FALSE], managed |-> db]

\* the first step of an apply round that fails, if any
CrdbOutcomes ==
    [fail : {"none", "service", "enable", "restart", "ready", "init", "status"}]

CrdbApply(n) ==
    /\ service = "cockroachdb"
    /\ \E o \in CrdbOutcomes :
         Commit("apply", n, crdb_state_json,
                crdb_handle_apply(n, crdb_state_json, local_state[n], host[n], managed, o))

CrdbHealth(n) ==
    /\ service = "cockroachdb"
    /\ \E o \in [fail : {"none", "is_active", "status"}] :
         Commit("health", n, crdb_state_json,
                crdb_handle_health(n, crdb_state_json, local_state[n], host[n], managed, o))

CrdbDestroy(n) ==
    /\ service = "cockroachdb"
    /\ \E o \in [raises : BOOLEAN] :
         Commit("destroy", n, crdb_state_json,
                crdb_handle_destroy(n, crdb_state_json, local_state[n], host[n], managed, o))

InitCrdb ==
    /\ service = "cockroachdb"
    /\ clusterNodes = Nodes
    /\ leader_node = "A"
    /\ wgNodeProperties = AllTunnelIps
    /\ nodeProperties = {}
    /\ clusterProperties = {}
    /\ swarm = NoSwarm
    /\ local_state = [n \in Nodes |-> EmptyDict]
    /\ host = [n \in Nodes |-> [active |-> FALSE]]
    /\ managed = [initialized |-> FALSE]
    /\ rounds = << >>
    /\ roundNo = 0
    /\ sched = NoSchedule
    /\ envSteps = 0

NextCrdb ==
    \/ \E n \in Nodes : CrdbApply(n)
    \/ \E n \in Nodes : CrdbHealth(n)
    \/ \E n \in Nodes : CrdbDestroy(n)
    \/ \E n \in Nodes : MemberLeaves(n)
    \/ \E n \in Nodes : TunnelIpChanges(n, None)

SpecCrdb == InitCrdb /\ [][NextCrdb]_vars

(***************************************************************************)
(* Redis (src/services/apps/redis/main.py)                                 *)
(* host[n] = [active]: the redis-server unit is active                     *)
(* managed = [members]: the nodes that are part of the Redis cluster       *)
(***************************************************************************)
redis_state_json ==
    [clusterNodes |-> clusterNodes, cluster |-> [leader_node |-> leader_node],
     wgNodeProperties |-> wgNodeProperties, redisNodeProperties |-> nodeProperties]

redis_is_cluster_initialized(redis_props) ==
    \E p \in redis_props : p.name = "redis_cluster_initialized" /\ p.value = "true"

\* a readiness check that is satisfied by any set of published properties
check_all_nodes_redis_ready_skipped(cluster_nodes, redis_props) == TRUE

\* a readiness check that no set of published properties satisfies
check_all_nodes_redis_ready_never(cluster_nodes, redis_props) == FALSE

check_all_nodes_redis_ready(cluster_nodes, redis_props) ==
    \A node_id \in cluster_nodes : \E p \in redis_props :
        p.node_id = node_id /\ p.name = "redis_node_ready" /\ p.value = "true"

\* creates the cluster or adds the missing members to it
create_redis_cluster(cluster_nodes, rc, o) == o.fail # "create"

\* redis-cli cluster info reports cluster_state:ok
redis_check_node_in_cluster(local_node_id, rc, o) ==
    local_node_id \in rc.members /\ o.fail # "cluster_info"

\* a variant that marks the cluster initialized whatever create_redis_cluster
\* returned
redis_leader_node_properties_always(created) ==
    [redis_node_ready |-> "true", redis_cluster_initialized |-> "true"]

\* leader_node_properties of handle_apply: the leader is ready, and the
\* cluster is initialized once create_redis_cluster returned True
redis_leader_node_properties(created) ==
    IF created THEN [redis_node_ready |-> "true", redis_cluster_initialized |-> "true"]
    ELSE [redis_node_ready |-> "true"]

\* lines 530-595 of handle_apply
redis_apply_cluster(local_node_id, state_json, ls, hst, rc, o, is_leader, cluster_initialized, calls0) ==
    LET cluster_nodes == state_json.clusterNodes
        redis_props == state_json.redisNodeProperties
        created == create_redis_cluster(cluster_nodes, rc, o)
        create_calls == calls0 \o <<Call("create_redis_cluster", "", created)>>
        in_cluster == redis_check_node_in_cluster(local_node_id, rc, o)
        check_calls == calls0 \o <<Call("check_node_in_cluster", "", in_cluster)>>
        ready == [redis_node_ready |-> "true"]
    IN  IF is_leader
        THEN IF ~check_all_nodes_redis_ready(cluster_nodes, redis_props)
             THEN [out |-> PluginOutput("postponed",
                            "Waiting for all nodes to have Redis ready before creating/updating cluster",
                            ready, EmptyDict, ls),
                   calls |-> calls0, host |-> hst, managed |-> rc]
             ELSE IF created
             THEN [out |-> PluginOutput("completed", None,
                            redis_leader_node_properties(created), EmptyDict, ls),
                   calls |-> create_calls, host |-> hst,
                   managed |-> [members |-> rc.members \cup cluster_nodes]]
             ELSE [out |-> PluginOutput("postponed",
                            "Failed to create or reconcile Redis cluster",
                            redis_leader_node_properties(created), EmptyDict, ls),
                   calls |-> create_calls, host |-> hst, managed |-> rc]
        ELSE IF cluster_initialized
        THEN IF in_cluster
             THEN [out |-> PluginOutput("completed", None, ready, EmptyDict, ls),
                   calls |-> check_calls, host |-> hst, managed |-> rc]
             ELSE [out |-> PluginOutput("postponed", "Node not in cluster yet", ready,
                                        EmptyDict, ls),
                   calls |-> check_calls, host |-> hst, managed |-> rc]
        ELSE [out |-> PluginOutput("postponed", "Waiting for leader node to initialize cluster",
                                   ready, EmptyDict, ls),
              calls |-> calls0, host |-> hst, managed |-> rc]

\* lines 478-528 of handle_apply: write the configuration, restart if needed
redis_apply_start(local_node_id, state_json, ls, hst, rc, o, is_leader, cluster_initialized) ==
    LET wrote == <<Call("write_redis_config", local_node_id, o.fail # "write")>>
        needs_restart == ~hst.active \/ ~o.ping
        enabled == wrote \o <<Call("systemctl", "enable", o.fail # "enable")>>
        restarted == enabled \o <<Call("systemctl", "restart", o.fail # "restart")>>
        redis_ready == o.fail # "ready"
        waited == restarted \o <<Call("wait_for_redis_ready", "", redis_ready)>>
        hst1 == [active |-> TRUE]
        err(msg, calls) ==
            [out |-> PluginOutput("error", msg, EmptyDict, EmptyDict, ls),
             calls |-> calls, host |-> hst, managed |-> rc]
    IN  IF o.fail = "write" THEN err("Failed to write config", wrote)
        ELSE IF ~needs_restart
        THEN redis_apply_cluster(local_node_id, state_json, ls, hst, rc, o, is_leader, cluster_initialized, wrote)
        ELSE IF o.fail = "enable" THEN err("Failed to enable Redis", enabled)
        ELSE IF o.fail = "restart" THEN err("Failed to start Redis", restarted)
        ELSE IF ~redis_ready
        THEN [out |-> PluginOutput("postponed", "Redis did not become ready within timeout",
                                   EmptyDict, EmptyDict, ls),
              calls |-> waited, host |-> hst1, managed |-> rc]
        ELSE redis_apply_cluster(local_node_id, state_json, ls, hst1, rc, o, is_leader, cluster_initialized, waited)

redis_handle_apply(local_node_id, state_json, ls, hst, rc, o) ==
    LET cluster_nodes == state_json.clusterNodes
        redis_props == state_json.redisNodeProperties
        wg_props == state_json.wgNodeProperties
        leader_node_id == get_leader_node(state_json)
        is_leader == leader_node_id = local_node_id
        cluster_initialized == redis_is_cluster_initialized(redis_props)
        local_tunnel_ip == get_node_tunnel_ip(local_node_id, wg_props)
        stop(status, msg) ==
            [out |-> PluginOutput(status, msg, EmptyDict, EmptyDict, ls),
             calls |-> << >>, host |-> hst, managed |-> rc]
    IN  IF ~check_all_nodes_have_wg(cluster_nodes, wg_props)
        THEN stop("postponed", "Waiting for WireGuard to be configured on all nodes")
        ELSE IF Cardinality(cluster_nodes) < 1
        THEN stop("postponed", "Redis cluster requires at least 1 node")
        ELSE IF Falsy(local_tunnel_ip)
        THEN stop("error", "Local node has no WireGuard tunnel IP")
        ELSE redis_apply_start(local_node_id, state_json, ls, hst, rc, o, is_leader, cluster_initialized)

redis_handle_health(local_node_id, state_json, ls, hst, rc, o) ==
    LET local_tunnel_ip == get_node_tunnel_ip(local_node_id, state_json.wgNodeProperties)
        stop(status, msg) ==
            [out |-> PluginOutput(status, msg, EmptyDict, EmptyDict, ls),
             calls |-> << >>, host |-> hst, managed |-> rc]
    IN  IF o.fail = "is_active" THEN stop("error", "Failed to check service status")
        ELSE IF ~hst.active THEN stop("postponed", "Service status: inactive")
        ELSE IF Falsy(local_tunnel_ip) THEN stop("postponed", "No tunnel IP available")
        ELSE IF ~o.ping THEN stop("postponed", "Redis is not responding")
        ELSE IF o.fail = "cluster_info" THEN stop("error", "Failed to get cluster info")
        ELSE IF local_node_id \notin rc.members THEN stop("postponed", "Cluster state: fail")
        ELSE stop("completed", None)

redis_handle_destroy(local_node_id, state_json, ls, hst, rc, o) ==
    IF o.raises
    THEN [out |-> PluginOutput("error", "Failed to destroy Redis", EmptyDict, EmptyDict,
                               EmptyDict),
          calls |-> <<Call("systemctl", "stop", TRUE)>>, host |-> hst, managed |-> rc]
    ELSE [out |-> PluginOutput("completed", None,
                    [redis_node_ready |-> None, redis_cluster_initialized |-> None],
                    EmptyDict, EmptyDict),
          calls |-> <<Call("systemctl", "stop", TRUE), Call("systemctl", "disable", TRUE)>>,
          host |-> [active |-> FALSE],
          managed |-> [members |-> rc.members \ {local_node_id}]]

\* the first failing step of a round, and the answer to redis-cli ping
RedisOutcomes(n) ==
    [fail : {"none", "write", "enable", "restart", "ready", "create", "cluster_info"},
     ping : IF host[n].active THEN BOOLEAN ELSE {FALSE}]

\* every command of the round succeeds
RedisSuccess(n) == [fail |-> "none", ping |-> host[n].active]

RedisApply(n) ==
    /\ service = "redis"
    /\ \E o \in RedisOutcomes(n) :
         Commit("apply", n, redis_state_json,
                redis_handle_apply(n, redis_state_json, local_state[n], host[n], managed, o))

RedisHealth(n) ==
    /\ service = "redis"
    /\ \E o \in [fail : {"none", "is_active", "cluster_info"}, ping : BOOLEAN] :
         Commit("health", n, redis_state_json,
                redis_handle_health(n, redis_state_json, local_state[n], host[n], managed, o))

RedisDestroy(n) ==
    /\ service = "redis"
    /\ \E o \in [raises : BOOLEAN] :
         Commit("destroy", n, redis_state_json,
                redis_handle_destroy(n, redis_state_json, local_state[n], host[n], managed, o))

InitRedis ==
    /\ service = "redis"
    /\ clusterNodes = Nodes
    /\ leader_node = "A"
    /\ wgNodeProperties = AllTunnelIps
    /\ nodeProperties = {}
    /\ clusterProperties = {}
    /\ swarm = NoSwarm
    /\ local_state = [n \in Nodes |-> EmptyDict]
    /\ host = [n \in Nodes |-> [active |-> FALSE]]
    /\ managed = [members |-> {}]
    /\ rounds = << >>
    /\ roundNo = 0
    /\ sched = NoSchedule
    /\ envSteps = 0

NextRedis ==
    \/ \E n \in Nodes : RedisApply(n)
    \/ \E n \in Nodes : RedisHealth(n)
    \/ \E n \in Nodes : RedisDestroy(n)
    \/ \E n \in Nodes : MemberLeaves(n)
    \/ \E n \in Nodes : UnitStops(n)

SpecRedis == InitRedis /\ [][NextRedis]_vars

\* Redis under a fixed member set and leader, with every command succeeding
\* and the members taking their apply rounds in sweeps
RedisSweepApply(n) ==
    /\ service = "redis"
    /\ CommitInSweep("apply", n, redis_state_json,
                     redis_handle_apply(n, redis_state_json, local_state[n], host[n],
                                        managed, RedisSuccess(n)))

InitRedisFair ==
    /\ service = "redis"
    /\ clusterNodes \in (SUBSET Nodes) \ {{}}
    /\ leader_node \in clusterNodes
    /\ wgNodeProperties = AllTunnelIps
    /\ nodeProperties = {}
    /\ clusterProperties = {}
    /\ swarm = NoSwarm
    /\ local_state = [n \in Nodes |-> EmptyDict]
    /\ host = [n \in Nodes |-> [active |-> FALSE]]
    /\ managed = [members |-> {}]
    /\ rounds = << >>
    /\ roundNo = 0
    /\ sched = NoSchedule
    /\ envSteps = 0

NextRedisFair == \E n \in Nodes : RedisSweepApply(n)

SpecRedisFair ==
    InitRedisFair /\ [][NextRedisFair]_vars /\ WF_vars(NextRedisFair)

(***************************************************************************)
(* OpenResty (src/services/apps/openresty/main.py)                         *)
(* host[n] = [active]: the openresty unit is active                        *)
(* managed = [gw_records]: the gateway A records have been sent to Knot    *)
(* swarm = [globalId, base_domain, redis_ready, knot_leader, tsig]: what   *)
(* the StateView carries from the swarm and from the Redis and Knot        *)
(* clusters                                                                *)
(***************************************************************************)
openresty_state_json ==
    [clusterNodes |-> clusterNodes, cluster |-> [leader_node |-> leader_node],
     wgNodeProperties |-> wgNodeProperties, openrestyNodeProperties |-> nodeProperties,
     redisNodeProperties |-> {Prop(n, "redis_node_ready", "true") : n \in swarm.redis_ready},
     globalId |-> swarm.globalId,
     swarmSecrets |-> [base_domain |-> swarm.base_domain],
     knotCluster |-> [leader_node |-> swarm.knot_leader],
     knotClusterProperties |->
        IF swarm.tsig THEN [knot_tsig_key_name |-> "tsig", knot_tsig_key_secret |-> "secret"]
        ELSE [knot_tsig_key_name |-> None, knot_tsig_key_secret |-> None]]

get_redis_tunnel_ips(state_json) ==
    {get_node_tunnel_ip(p.node_id, state_json.wgNodeProperties) :
        p \in {q \in state_json.redisNodeProperties :
                 /\ q.name = "redis_node_ready" /\ q.value = "true"
                 /\ ~Falsy(get_node_tunnel_ip(q.node_id, state_json.wgNodeProperties))}}

get_knot_leader_tunnel_ip(state_json) ==
    IF Falsy(state_json.knotCluster.leader_node) THEN None
    ELSE get_node_tunnel_ip(state_json.knotCluster.leader_node, state_json.wgNodeProperties)

get_secret_from_swarmdb(state_json, secret_id) == state_json.swarmSecrets[secret_id]

\* TRUE when both parts of the TSIG key are published by the Knot cluster
get_knot_tsig_key(state_json) ==
    /\ ~Falsy(state_json.knotClusterProperties["knot_tsig_key_name"])
    /\ ~Falsy(state_json.knotClusterProperties["knot_tsig_key_secret"])

\* the payload that is hashed: sha256 is taken to be injective on it
compute_config_hash(redis_hosts) == [redis_hosts |-> redis_hosts]

update_gateway_dns_records(knot_leader_tunnel_ip, cluster_nodes, o) ==
    cluster_nodes # {} /\ ~Falsy(knot_leader_tunnel_ip) /\ o.fail # "dns"

\* a fingerprint check that never finds the configuration unchanged
openresty_unchanged_never(ls, config_hash) == FALSE

\* line 863
openresty_unchanged(ls, config_hash) ==
    /\ "config_hash" \in DOMAIN ls
    /\ ls["config_hash"] = config_hash
    /\ Truthy(ls, "openresty_ready")

\* lines 941-1034 of handle_apply: publish readiness, update the gateway DNS
openresty_apply_publish(local_node_id, state_json, ls, hst, dns, o, config_hash, redis_hosts, calls0) ==
    LET new_local_state ==
            Update(ls, [config_hash |-> config_hash, redis_hosts |-> redis_hosts,
                        openresty_ready |-> TRUE])
        is_leader == get_leader_node(state_json) = local_node_id
        global_id == state_json.globalId
        base_domain == get_secret_from_swarmdb(state_json, "base_domain")
        knot_leader_tunnel_ip == get_knot_leader_tunnel_ip(state_json)
        tsig_result == get_knot_tsig_key(state_json)
        tries_dns == /\ is_leader /\ ~Falsy(global_id) /\ ~Falsy(base_domain)
                     /\ ~Falsy(knot_leader_tunnel_ip) /\ tsig_result
        dns_updated == update_gateway_dns_records(knot_leader_tunnel_ip,
                                                  state_json.clusterNodes, o)
        dns_calls == calls0 \o <<Call("update_gateway_dns_records", "", dns_updated)>>
    IN  IF tries_dns /\ ~dns_updated
        THEN [out |-> PluginOutput("postponed", "Failed to update gateway DNS records in Knot",
                                   EmptyDict, EmptyDict, new_local_state),
              calls |-> dns_calls, host |-> hst, managed |-> dns]
        ELSE IF tries_dns
        THEN [out |-> PluginOutput("completed", None,
                        [openresty_ready |-> "true", openresty_dns_updated |-> "true"],
                        EmptyDict, new_local_state),
              calls |-> dns_calls, host |-> hst, managed |-> [gw_records |-> TRUE]]
        ELSE [out |-> PluginOutput("completed", None, [openresty_ready |-> "true"],
                                   EmptyDict, new_local_state),
              calls |-> calls0, host |-> hst, managed |-> dns]

\* lines 867-936 of handle_apply: write the configuration, reload or start
openresty_apply_reconfigure(local_node_id, state_json, ls, hst, dns, o, config_hash, redis_hosts) ==
    LET wrote == <<Call("write_nginx_config", local_node_id, o.fail # "write")>>
        reloads == hst.active /\ "config_hash" \in DOMAIN ls
        reload_failed == o.fail \in {"reload", "restart"}
        reloaded == wrote \o <<Call("systemctl", "reload", ~reload_failed)>>
        restarted == reloaded \o <<Call("systemctl", "restart", o.fail # "restart")>>
        enabled == wrote \o <<Call("systemctl", "enable", o.fail # "enable")>>
        started == enabled \o <<Call("systemctl", "start", o.fail # "start")>>
        hst1 == [active |-> TRUE]
        err(msg, calls) ==
            [out |-> PluginOutput("error", msg, EmptyDict, EmptyDict, ls),
             calls |-> calls, host |-> hst, managed |-> dns]
    IN  IF o.fail = "write" THEN err("Failed to write config", wrote)
        ELSE IF reloads
        THEN IF ~reload_failed
             THEN openresty_apply_publish(local_node_id, state_json, ls, hst1, dns, o, config_hash, redis_hosts, reloaded)
             ELSE IF o.fail = "restart" THEN err("Failed to restart OpenResty", restarted)
             ELSE openresty_apply_publish(local_node_id, state_json, ls, hst1, dns, o, config_hash, redis_hosts, restarted)
        ELSE IF o.fail = "enable" THEN err("Failed to enable OpenResty", enabled)
        ELSE IF o.fail = "start" THEN err("Failed to start OpenResty", started)
        ELSE openresty_apply_publish(local_node_id, state_json, ls, hst1, dns, o, config_hash, redis_hosts, started)

openresty_handle_apply(local_node_id, state_json, ls, hst, dns, o) ==
    LET redis_hosts == get_redis_tunnel_ips(state_json)
        config_hash == compute_config_hash(redis_hosts)
        stop(status, msg) ==
            [out |-> PluginOutput(status, msg, EmptyDict, EmptyDict, ls),
             calls |-> << >>, host |-> hst, managed |-> dns]
    IN  IF redis_hosts = {}
        THEN stop("postponed", "Waiting for Redis nodes to become ready")
        ELSE IF openresty_unchanged(ls, config_hash)
        THEN stop("completed", None)
        ELSE openresty_apply_reconfigure(local_node_id, state_json, ls, hst, dns, o, config_hash, redis_hosts)

openresty_handle_health(local_node_id, state_json, ls, hst, dns, o) ==
    LET is_leader == get_leader_node(state_json) = local_node_id
        dns_updated == Prop(local_node_id, "openresty_dns_updated", "true")
                            \in state_json.openrestyNodeProperties
        stop(status, msg) ==
            [out |-> PluginOutput(status, msg, EmptyDict, EmptyDict, ls),
             calls |-> << >>, host |-> hst, managed |-> dns]
    IN  IF o.fail = "is_active" THEN stop("error", "Failed to check service status")
        ELSE IF ~hst.active THEN stop("postponed", "Service status: inactive")
        ELSE IF /\ is_leader /\ ~dns_updated /\ ~Falsy(state_json.globalId)
                /\ ~Falsy(get_secret_from_swarmdb(state_json, "base_domain"))
        THEN stop("postponed", "Gateway DNS records not yet updated")
        ELSE stop("completed", None)

openresty_handle_destroy(local_node_id, state_json, ls, hst, dns, o) ==
    IF o.raises
    THEN [out |-> PluginOutput("error", "Failed to destroy OpenResty", EmptyDict, EmptyDict,
                               EmptyDict),
          calls |-> <<Call("systemctl", "stop", TRUE)>>, host |-> hst, managed |-> dns]
    ELSE [out |-> PluginOutput("completed", None, [openresty_ready |-> None],
                               EmptyDict, EmptyDict),
          calls |-> <<Call("systemctl", "stop", TRUE), Call("systemctl", "disable", TRUE)>>,
          host |-> [active |-> FALSE], managed |-> dns]

\* the first failing step of an apply round, if any ("reload": the reload
\* fails and the restart that follows succeeds)
OpenrestyOutcomes ==
    [fail : {"none", "write", "reload", "restart", "enable", "start", "dns"}]

OpenrestyApply(n) ==
    /\ service = "openresty"
    /\ \E o \in OpenrestyOutcomes :
         Commit("apply", n, openresty_state_json,
                openresty_handle_apply(n, openresty_state_json, local_state[n], host[n],
                                       managed, o))

OpenrestyHealth(n) ==
    /\ service = "openresty"
    /\ \E o \in [fail : {"none", "is_active"}] :
         Commit("health", n, openresty_state_json,
                openresty_handle_health(n, openresty_state_json, local_state[n], host[n],
                                        managed, o))

OpenrestyDestroy(n) ==
    /\ service = "openresty"
    /\ \E o \in [raises : BOOLEAN] :
         Commit("destroy", n, openresty_state_json,
                openresty_handle_destroy(n, openresty_state_json, local_state[n], host[n],
                                         managed, o))

\* a Redis node becomes ready or stops being ready
RedisReadyChanges(n) ==
    /\ service = "openresty"
    /\ envSteps < MaxEnvSteps
    /\ swarm' = [swarm EXCEPT !.redis_ready =
                    IF n \in @ THEN @ \ {n} ELSE @ \cup {n}]
    /\ envSteps' = envSteps + 1
    /\ UNCHANGED <<service, clusterNodes, leader_node, wgNodeProperties, nodeProperties,
                   clusterProperties, local_state, host, managed, rounds, roundNo, sched>>

\* the swarm inputs an OpenResty node can start with
OpenrestySwarms ==
    {[globalId |-> g[1], base_domain |-> g[2], redis_ready |-> rr,
      knot_leader |-> k[1], tsig |-> k[2]] :
        g \in {<<None, None>>, <<"swarm1", "example.org">>},
        k \in {<<None, FALSE>>, <<"A", TRUE>>},
        rr \in {{}, {"A", "B"}}}

InitOpenresty ==
    /\ service = "openresty"
    /\ clusterNodes = Nodes
    /\ leader_node = "A"
    /\ wgNodeProperties = AllTunnelIps
    /\ nodeProperties = {}
    /\ clusterProperties = {}
    /\ swarm \in OpenrestySwarms
    /\ local_state = [n \in Nodes |-> EmptyDict]
    /\ host = [n \in Nodes |-> [active |-> FALSE]]
    /\ managed = [gw_records |-> FALSE]
    /\ rounds = << >>
    /\ roundNo = 0
    /\ sched = NoSchedule
    /\ envSteps = 0

NextOpenresty ==
    \/ \E n \in Nodes : OpenrestyApply(n)
    \/ \E n \in Nodes : OpenrestyHealth(n)
    \/ \E n \in Nodes : OpenrestyDestroy(n)
    \/ \E n \in Nodes : RedisReadyChanges(n)
    \/ \E n \in Nodes : UnitStops(n)

SpecOpenresty == InitOpenresty /\ [][NextOpenresty]_vars

(***************************************************************************)
(* The three plugins that keep a configuration fingerprint                 *)
(***************************************************************************)
InitFingerprint == InitCrdb \/ InitRke2 \/ InitOpenresty

NextFingerprint == NextCrdb \/ NextRke2 \/ NextOpenresty

SpecFingerprint == InitFingerprint /\ [][NextFingerprint]_vars

(***************************************************************************)
(* NATS (src/services/apps/nats/main.py)                                   *)
(* host[n] = [active]: the nats-server unit is active                      *)
(***************************************************************************)
nats_state_json ==
    [clusterNodes |-> clusterNodes, cluster |-> [leader_node |-> leader_node],
     wgNodeProperties |-> wgNodeProperties, natsNodeProperties |-> nodeProperties]

nats_is_cluster_initialized(nats_props) ==
    \E p \in nats_props : p.name = "nats_cluster_initialized" /\ p.value = "true"

mark_node_ready == [nats_node_ready |-> "true"]

\* lines 198-234 of handle_apply: needs_restart is computed and not used,
\* the unit is enabled and restarted in every round
nats_apply_start(local_node_id, state_json, ls, hst, mgd, o, is_leader, cluster_initialized) ==
    LET wrote == <<Call("write_nats_config", local_node_id, o.fail # "write")>>
        needs_restart == ~hst.active
        enabled == wrote \o <<Call("systemctl", "enable", TRUE)>>
        restarted == enabled \o <<Call("systemctl", "restart", o.fail # "restart")>>
        ready == o.fail # "tcp"
        waited == restarted \o <<Call("wait_for_tcp", "", ready)>>
        hst1 == [active |-> TRUE]
    IN  IF o.fail = "write"
        THEN [out |-> PluginOutput("error", "Failed to write NATS config", EmptyDict,
                                   EmptyDict, ls),
              calls |-> wrote, host |-> hst, managed |-> mgd]
        ELSE IF o.fail = "restart"
        THEN [out |-> PluginOutput("error", "Failed to start NATS", EmptyDict, EmptyDict, ls),
              calls |-> restarted, host |-> [active |-> FALSE], managed |-> mgd]
        ELSE IF ~ready
        THEN [out |-> PluginOutput("postponed", "NATS did not become ready within timeout",
                                   mark_node_ready, EmptyDict, ls),
              calls |-> waited, host |-> hst1, managed |-> mgd]
        ELSE IF is_leader /\ ~cluster_initialized
        THEN [out |-> PluginOutput("completed", None,
                        [nats_cluster_initialized |-> "true", nats_node_ready |-> "true"],
                        EmptyDict, ls),
              calls |-> waited, host |-> hst1, managed |-> mgd]
        ELSE IF cluster_initialized
        THEN [out |-> PluginOutput("completed", None, mark_node_ready, EmptyDict, ls),
              calls |-> waited, host |-> hst1, managed |-> mgd]
        ELSE [out |-> PluginOutput("postponed",
                        "Waiting for leader node to mark cluster initialized",
                        mark_node_ready, EmptyDict, ls),
              calls |-> waited, host |-> hst1, managed |-> mgd]

nats_handle_apply(local_node_id, state_json, ls, hst, mgd, o) ==
    LET cluster_nodes == state_json.clusterNodes
        wg_props == state_json.wgNodeProperties
        nats_props == state_json.natsNodeProperties
        is_leader == get_leader_node(state_json) = local_node_id
        cluster_initialized == nats_is_cluster_initialized(nats_props)
        local_tunnel_ip == get_node_tunnel_ip(local_node_id, wg_props)
        stop(status, msg) ==
            [out |-> PluginOutput(status, msg, EmptyDict, EmptyDict, ls),
             calls |-> << >>, host |-> hst, managed |-> mgd]
    IN  IF ~check_all_nodes_have_wg(cluster_nodes, wg_props)
        THEN stop("postponed", "Waiting for WireGuard to be configured on all nodes")
        ELSE IF Falsy(local_tunnel_ip)
        THEN stop("error", "Local node has no WireGuard tunnel IP")
        ELSE nats_apply_start(local_node_id, state_json, ls, hst, mgd, o, is_leader, cluster_initialized)

nats_handle_health(local_node_id, state_json, ls, hst, mgd, o) ==
    LET local_tunnel_ip == get_node_tunnel_ip(local_node_id, state_json.wgNodeProperties)
        stop(status, msg) ==
            [out |-> PluginOutput(status, msg, EmptyDict, EmptyDict, ls),
             calls |-> << >>, host |-> hst, managed |-> mgd]
    IN  IF o.fail = "is_active" THEN stop("error", "Failed to check service status")
        ELSE IF ~hst.active THEN stop("postponed", "NATS service is not running")
        ELSE IF Falsy(local_tunnel_ip) THEN stop("postponed", "No tunnel IP available")
        ELSE IF o.fail = "tcp" THEN stop("postponed", "NATS not accepting connections yet")
        ELSE stop("completed", None)

nats_handle_destroy(local_node_id, state_json, ls, hst, mgd, o) ==
    IF o.raises
    THEN [out |-> PluginOutput("error", "Failed to destroy NATS", EmptyDict, EmptyDict,
                               EmptyDict),
          calls |-> <<Call("systemctl", "stop", TRUE)>>, host |-> hst, managed |-> mgd]
    ELSE [out |-> PluginOutput("completed", None,
                    [nats_node_ready |-> None, nats_cluster_initialized |-> None],
                    EmptyDict, EmptyDict),
          calls |-> <<Call("systemctl", "stop", TRUE), Call("systemctl", "disable", TRUE)>>,
          host |-> [active |-> FALSE], managed |-> mgd]

NatsApply(n) ==
    /\ service = "nats"
    /\ \E o \in [fail : {"none", "write", "restart", "tcp"}] :
         Commit("apply", n, nats_state_json,
                nats_handle_apply(n, nats_state_json, local_state[n], host[n], managed, o))

NatsHealth(n) ==
    /\ service = "nats"
    /\ \E o \in [fail : {"none", "is_active", "tcp"}] :
         Commit("health", n, nats_state_json,
                nats_handle_health(n, nats_state_json, local_state[n], host[n], managed, o))

NatsDestroy(n) ==
    /\ service = "nats"
    /\ \E o \in [raises : BOOLEAN] :
         Commit("destroy", n, nats_state_json,
                nats_handle_destroy(n, nats_state_json, local_state[n], host[n], managed, o))

InitNats ==
    /\ service = "nats"
    /\ clusterNodes = Nodes
    /\ leader_node = "A"
    /\ wgNodeProperties = AllTunnelIps
    /\ nodeProperties = {}
    /\ clusterProperties = {}
    /\ swarm = NoSwarm
    /\ local_state = [n \in Nodes |-> EmptyDict]
    /\ host = [n \in Nodes |-> [active |-> FALSE]]
    /\ managed = [routes |-> {}]
    /\ rounds = << >>
    /\ roundNo = 0
    /\ sched = NoSchedule
    /\ envSteps = 0

NextNats ==
    \/ \E n \in Nodes : NatsApply(n)
    \/ \E n \in Nodes : NatsHealth(n)
    \/ \E n \in Nodes : NatsDestroy(n)
    \/ \E n \in Nodes : MemberLeaves(n)
    \/ \E n \in Nodes : TunnelIpChanges(n, None)

SpecNats == InitNats /\ [][NextNats]_vars

(***************************************************************************)
(* Knot DNS (src/services/apps/knot/main.py)                               *)
(* swarm = [globalId, base_domain, powerdns_api_url, powerdns_api_key]     *)
(* host[n] = [active]: the knot unit is active                             *)
(* managed = [zones]: the zones created on the catalog master              *)
(***************************************************************************)
knot_state_json ==
    [clusterNodes |-> clusterNodes, cluster |-> [leader_node |-> leader_node],
     wgNodeProperties |-> wgNodeProperties, knotNodeProperties |-> nodeProperties,
     clusterProperties |-> clusterProperties, globalId |-> swarm.globalId,
     swarmSecrets |-> [base_domain |-> swarm.base_domain,
                       powerdns_api_url |-> swarm.powerdns_api_url,
                       powerdns_api_key |-> swarm.powerdns_api_key]]

knot_is_cluster_initialized(knot_props) ==
    \E p \in knot_props : p.name = "knot_cluster_initialized" /\ p.value = "true"

\* a variant that asks for at least one ready peer
check_all_nodes_knot_ready_needs_peer(cluster_nodes, knot_props, local_node_id) ==
    \E node_id \in cluster_nodes \ {local_node_id} : \E p \in knot_props :
        p.node_id = node_id /\ p.name = "knot_node_ready" /\ p.value = "true"

check_all_nodes_knot_ready(cluster_nodes, knot_props, local_node_id) ==
    \A node_id \in cluster_nodes \ {local_node_id} : \E p \in knot_props :
        p.node_id = node_id /\ p.name = "knot_node_ready" /\ p.value = "true"

\* lines 836-840 of handle_apply: both parts of the TSIG key are published
knot_has_tsig_key(cluster_props) ==
    /\ \E p \in cluster_props : p.name = "knot_tsig_key_name" /\ ~Falsy(p.value)
    /\ \E p \in cluster_props : p.name = "knot_tsig_key_secret" /\ ~Falsy(p.value)

\* lines 883-1014 of handle_apply: write the configuration, restart the unit,
\* and on the leader register the delegation and create the zone
knot_apply_start(local_node_id, state_json, ls, hst, mgd, o, cluster_properties, calls0) ==
    LET cluster_nodes == state_json.clusterNodes
        knot_props == state_json.knotNodeProperties
        is_leader == get_leader_node(state_json) = local_node_id
        cluster_initialized == knot_is_cluster_initialized(knot_props)
        wrote == calls0 \o <<Call("write_knot_config", local_node_id, o.fail # "write")>>
        enabled == wrote \o <<Call("systemctl", "enable", o.fail # "enable")>>
        restarted == enabled \o <<Call("systemctl", "restart", o.fail # "restart")>>
        waited == restarted \o <<Call("wait_for_knot_ready", "", o.fail # "ready")>>
        catalog == IF is_leader
                   THEN waited \o <<Call("create_catalog_zone_file", "", o.fail # "catalog")>>
                   ELSE waited
        all_ready == check_all_nodes_knot_ready(cluster_nodes, knot_props, local_node_id)
        forming == is_leader /\ ~cluster_initialized
        credentials == /\ ~Falsy(get_secret_from_swarmdb(state_json, "powerdns_api_url"))
                       /\ ~Falsy(get_secret_from_swarmdb(state_json, "powerdns_api_key"))
        registers == forming /\ all_ready /\ credentials
        registered == IF registers
                      THEN catalog \o <<Call("register_cluster_nodes_in_powerdns", "",
                                              o.fail # "powerdns")>>
                      ELSE catalog
        ready == [knot_node_ready |-> "true"]
        node_properties == IF forming /\ all_ready
                           THEN [knot_node_ready |-> "true", knot_cluster_initialized |-> "true"]
                           ELSE ready
        delegated_zone == state_json.globalId \o "." \o
                              get_secret_from_swarmdb(state_json, "base_domain")
        zoned == registered \o <<Call("create_zone_in_knot", delegated_zone, o.fail # "zone")>>
        hst1 == [active |-> TRUE]
        err(msg, calls, h) ==
            [out |-> PluginOutput("error", msg, EmptyDict, EmptyDict, ls),
             calls |-> calls, host |-> h, managed |-> mgd]
        wait(msg, np, cp, calls) ==
            [out |-> PluginOutput("postponed", msg, np, cp, ls),
             calls |-> calls, host |-> hst1, managed |-> mgd]
    IN  IF o.fail = "write" THEN err("Failed to write config", wrote, hst)
        ELSE IF o.fail = "enable" THEN err("Failed to enable Knot", enabled, hst)
        ELSE IF o.fail = "restart"
        THEN err("Failed to start Knot", restarted, [active |-> FALSE])
        ELSE IF o.fail = "ready"
        THEN wait("Knot DNS did not become ready within timeout", EmptyDict, EmptyDict, waited)
        ELSE IF is_leader /\ o.fail = "catalog"
        THEN wait("Failed to create catalog zone file", EmptyDict, EmptyDict, catalog)
        ELSE IF forming /\ ~all_ready
        THEN wait("Waiting for all nodes to have Knot ready before registering in PowerDNS",
                  ready, cluster_properties, catalog)
        ELSE IF registers /\ o.fail = "powerdns"
        THEN wait("PowerDNS registration failed, retrying", ready, cluster_properties,
                  registered)
        ELSE IF o.fail = "zone"
        THEN wait("Failed to create zone in Knot", node_properties, cluster_properties, zoned)
        ELSE [out |-> PluginOutput("completed", None, node_properties, cluster_properties, ls),
              calls |-> zoned, host |-> hst1,
              managed |-> IF is_leader THEN [zones |-> mgd.zones \cup {delegated_zone}]
                          ELSE mgd]

knot_handle_apply(local_node_id, state_json, ls, hst, mgd, o) ==
    LET cluster_nodes == state_json.clusterNodes
        knot_props == state_json.knotNodeProperties
        wg_props == state_json.wgNodeProperties
        leader_node_id == get_leader_node(state_json)
        is_leader == leader_node_id = local_node_id
        cluster_initialized == knot_is_cluster_initialized(knot_props)
        has_key == knot_has_tsig_key(state_json.clusterProperties)
        generated == <<Call("generate_tsig_key", "", o.fail # "tsig")>>
        new_key == [knot_tsig_key_name |-> "tsig", knot_tsig_key_secret |-> "secret"]
        stop(status, msg, calls) ==
            [out |-> PluginOutput(status, msg, EmptyDict, EmptyDict, ls),
             calls |-> calls, host |-> hst, managed |-> mgd]
    IN  IF ~check_all_nodes_have_wg(cluster_nodes, wg_props)
        THEN stop("postponed", "Waiting for WireGuard to be configured on all nodes", << >>)
        ELSE IF Falsy(state_json.globalId)
        THEN stop("postponed", "Waiting for global_id to be set in SwarmIdPointer table", << >>)
        ELSE IF Falsy(get_secret_from_swarmdb(state_json, "base_domain"))
        THEN stop("postponed", "Waiting for base_domain to be set in SwarmSecrets", << >>)
        ELSE IF Falsy(get_node_tunnel_ip(local_node_id, wg_props))
        THEN stop("error", "Local node has no WireGuard tunnel IP", << >>)
        ELSE IF ~has_key /\ ~(is_leader /\ ~cluster_initialized)
        THEN stop("postponed", "Waiting for TSIG key to be generated by leader", << >>)
        ELSE IF ~has_key /\ o.fail = "tsig"
        THEN stop("error", "Failed to generate TSIG key", generated)
        ELSE IF ~is_leader /\ Falsy(get_node_tunnel_ip(leader_node_id, wg_props))
        THEN stop("postponed", "Waiting for leader node to have WireGuard tunnel IP",
                  IF has_key THEN << >> ELSE generated)
        ELSE knot_apply_start(local_node_id, state_json, ls, hst, mgd, o,
                              IF has_key THEN EmptyDict ELSE new_key,
                              IF has_key THEN << >> ELSE generated)

knot_handle_health(local_node_id, state_json, ls, hst, mgd, o) ==
    LET is_leader == state_json.cluster.leader_node = local_node_id
        cluster_initialized == knot_is_cluster_initialized(state_json.knotNodeProperties)
        verifies == /\ is_leader /\ cluster_initialized
                    /\ ~Falsy(get_secret_from_swarmdb(state_json, "powerdns_api_url"))
                    /\ ~Falsy(get_secret_from_swarmdb(state_json, "powerdns_api_key"))
                    /\ ~Falsy(get_secret_from_swarmdb(state_json, "base_domain"))
                    /\ ~Falsy(state_json.globalId)
        status == <<Call("knotc", "status", o.fail # "status")>>
        stop(st, msg, calls) ==
            [out |-> PluginOutput(st, msg, EmptyDict, EmptyDict, ls),
             calls |-> calls, host |-> hst, managed |-> mgd]
    IN  IF o.fail = "is_active" THEN stop("error", "Failed to check service status", << >>)
        ELSE IF ~hst.active THEN stop("postponed", "Knot service is not running", << >>)
        ELSE IF o.fail = "status" THEN stop("postponed", "Knot is not responding", status)
        ELSE IF verifies /\ o.fail = "powerdns"
        THEN stop("postponed", "PowerDNS base zone verification failed",
                  status \o <<Call("powerdns_base_zone", "", FALSE)>>)
        ELSE stop("completed", None,
                  IF verifies THEN status \o <<Call("powerdns_base_zone", "", TRUE)>>
                  ELSE status)

knot_handle_destroy(local_node_id, state_json, ls, hst, mgd, o) ==
    IF o.raises
    THEN [out |-> PluginOutput("error", "Failed to destroy Knot DNS", EmptyDict, EmptyDict,
                               EmptyDict),
          calls |-> <<Call("systemctl", "stop", TRUE)>>, host |-> hst, managed |-> mgd]
    ELSE [out |-> PluginOutput("completed", None,
                    [knot_node_ready |-> None, knot_cluster_initialized |-> None],
                    EmptyDict, EmptyDict),
          calls |-> <<Call("systemctl", "stop", TRUE), Call("systemctl", "disable", TRUE)>>,
          host |-> [active |-> FALSE], managed |-> mgd]

KnotOutcomes ==
    [fail : {"none", "tsig", "write", "enable", "restart", "ready", "catalog", "powerdns",
             "zone"}]

KnotApply(n) ==
    /\ service = "knot"
    /\ \E o \in KnotOutcomes :
         Commit("apply", n, knot_state_json,
                knot_handle_apply(n, knot_state_json, local_state[n], host[n], managed, o))

KnotHealth(n) ==
    /\ service = "knot"
    /\ \E o \in [fail : {"none", "is_active", "status", "powerdns"}] :
         Commit("health", n, knot_state_json,
                knot_handle_health(n, knot_state_json, local_state[n], host[n], managed, o))

KnotDestroy(n) ==
    /\ service = "knot"
    /\ \E o \in [raises : BOOLEAN] :
         Commit("destroy", n, knot_state_json,
                knot_handle_destroy(n, knot_state_json, local_state[n], host[n], managed, o))

\* the swarm-level inputs of Knot: unset, set without and with PowerDNS
KnotSwarms ==
    {[globalId |-> g[1], base_domain |-> g[2],
      powerdns_api_url |-> k[1], powerdns_api_key |-> k[2]] :
        g \in {<<None, None>>, <<"swarm1", None>>, <<"swarm1", "example.org">>},
        k \in {<<None, None>>, <<"http://pdns", "key">>}}

(***************************************************************************)
(* MongoDB (swarm-scripts/apps/mongodb/main.py)                            *)
(* host[n] = [active]: the mongod unit is active                           *)
(* managed = [members]: the members of the replica set                     *)
(***************************************************************************)
mongodb_state_json ==
    [clusterNodes |-> clusterNodes, cluster |-> [leader_node |-> leader_node],
     wgNodeProperties |-> wgNodeProperties, mongodbNodeProperties |-> nodeProperties]

is_rs_initialized(mongo_props) ==
    \E p \in mongo_props : p.name = "mongodb_rs_initialized" /\ p.value = "true"

\* lines 300-335 of handle_apply: the leader initiates the replica set, after
\* every member is ready when there is more than one member
mongodb_apply_rs(local_node_id, state_json, ls, rs, o, calls0) ==
    LET cluster_nodes == state_json.clusterNodes
        mongo_props == state_json.mongodbNodeProperties
        wg_props == state_json.wgNodeProperties
        desired_hosts == {n \in cluster_nodes : ~Falsy(get_node_tunnel_ip(n, wg_props))}
        not_ready == {nid \in cluster_nodes :
                        Prop(nid, "mongodb_node_ready", "true") \notin mongo_props}
        initiated == calls0 \o <<Call("rs_initiate", "", o.fail # "initiate")>>
        node_ready_props == [mongodb_node_ready |-> "true"]
        hst1 == [active |-> TRUE]
    IN  IF Cardinality(cluster_nodes) > 1 /\ not_ready # {}
        THEN [out |-> PluginOutput("postponed", "Waiting for nodes to be ready",
                                   node_ready_props, EmptyDict, ls),
              calls |-> calls0, host |-> hst1, managed |-> rs]
        ELSE IF o.fail # "initiate"
        THEN [out |-> PluginOutput("completed", None,
                        [mongodb_rs_initialized |-> "true", mongodb_node_ready |-> "true"],
                        EmptyDict, ls),
              calls |-> initiated, host |-> hst1, managed |-> [members |-> desired_hosts]]
        ELSE [out |-> PluginOutput("postponed", "Failed to initiate replica set",
                                   node_ready_props, EmptyDict, ls),
              calls |-> initiated, host |-> hst1, managed |-> rs]

\* lines 259-353 of handle_apply
mongodb_apply_start(local_node_id, state_json, ls, hst, rs, o, is_leader, initialized) ==
    LET wrote == <<Call("write_mongod_config", local_node_id, o.fail # "write")>>
        needs_restart == ~hst.active \/ ~o.ping
        restarted == wrote \o <<Call("systemctl", "daemon-reload", TRUE),
                                Call("systemctl", "enable", TRUE),
                                Call("systemctl", "restart", o.fail # "restart")>>
        waited == restarted \o <<Call("wait_for_mongo_ready", "", o.fail # "ready")>>
        calls0 == IF needs_restart THEN waited ELSE wrote
        added == calls0 \o <<Call("rs_add_missing", "", o.fail # "add")>>
        desired_hosts == {n \in state_json.clusterNodes :
                            ~Falsy(get_node_tunnel_ip(n, state_json.wgNodeProperties))}
        node_ready_props == [mongodb_node_ready |-> "true"]
        hst1 == [active |-> TRUE]
    IN  IF o.fail = "write"
        THEN [out |-> PluginOutput("error", "Failed to write mongod config", EmptyDict,
                                   EmptyDict, ls),
              calls |-> wrote, host |-> hst, managed |-> rs]
        ELSE IF needs_restart /\ o.fail = "restart"
        THEN [out |-> PluginOutput("error", "Failed to start mongod", EmptyDict, EmptyDict, ls),
              calls |-> restarted, host |-> [active |-> FALSE], managed |-> rs]
        ELSE IF needs_restart /\ o.fail = "ready"
        THEN [out |-> PluginOutput("postponed", "mongod not ready yet",
                                   [mongodb_node_ready |-> "false"], EmptyDict, ls),
              calls |-> waited, host |-> hst1, managed |-> rs]
        ELSE IF is_leader /\ ~initialized
        THEN mongodb_apply_rs(local_node_id, state_json, ls, rs, o, calls0)
        ELSE IF initialized
        THEN [out |-> PluginOutput("completed", None, node_ready_props, EmptyDict, ls),
              calls |-> IF is_leader THEN added ELSE calls0, host |-> hst1,
              managed |-> IF is_leader /\ o.fail # "add"
                          THEN [members |-> rs.members \cup desired_hosts] ELSE rs]
        ELSE [out |-> PluginOutput("postponed",
                        "Waiting for leader node to initialize replica set",
                        node_ready_props, EmptyDict, ls),
              calls |-> calls0, host |-> hst1, managed |-> rs]

mongodb_handle_apply(local_node_id, state_json, ls, hst, rs, o) ==
    LET cluster_nodes == state_json.clusterNodes
        wg_props == state_json.wgNodeProperties
        is_leader == state_json.cluster.leader_node = local_node_id
        initialized == is_rs_initialized(state_json.mongodbNodeProperties)
        stop(status, msg) ==
            [out |-> PluginOutput(status, msg, EmptyDict, EmptyDict, ls),
             calls |-> << >>, host |-> hst, managed |-> rs]
    IN  IF ~check_all_nodes_have_wg(cluster_nodes, wg_props)
        THEN stop("postponed", "Waiting for WireGuard to be configured on all nodes")
        ELSE IF Falsy(get_node_tunnel_ip(local_node_id, wg_props))
        THEN stop("error", "Local node has no WireGuard tunnel IP")
        ELSE mongodb_apply_start(local_node_id, state_json, ls, hst, rs, o, is_leader, initialized)

mongodb_handle_health(local_node_id, state_json, ls, hst, rs, o) ==
    LET ip == get_node_tunnel_ip(local_node_id, state_json.wgNodeProperties)
        stop(status, msg) ==
            [out |-> PluginOutput(status, msg, EmptyDict, EmptyDict, ls),
             calls |-> << >>, host |-> hst, managed |-> rs]
    IN  IF o.fail = "is_active" THEN stop("error", "Failed to check service status")
        ELSE IF ~hst.active THEN stop("postponed", "mongod not running")
        ELSE IF Falsy(ip) THEN stop("postponed", "No tunnel IP available")
        ELSE IF ~o.ping THEN stop("postponed", "MongoDB ping failed")
        ELSE IF o.fail # "rs_status" /\ local_node_id \in rs.members
        THEN stop("completed", None)
        ELSE stop("postponed", "Replica set not healthy/initialized yet")

mongodb_handle_destroy(local_node_id, state_json, ls, hst, rs, o) ==
    IF o.raises
    THEN [out |-> PluginOutput("error", "Failed to destroy MongoDB", EmptyDict, EmptyDict,
                               EmptyDict),
          calls |-> << >>, host |-> hst, managed |-> rs]
    ELSE [out |-> PluginOutput("completed", None,
                    [mongodb_node_ready |-> None, mongodb_rs_initialized |-> None],
                    EmptyDict, EmptyDict),
          calls |-> <<Call("systemctl", "stop", TRUE), Call("systemctl", "disable", TRUE)>>,
          host |-> [active |-> FALSE], managed |-> [members |-> rs.members \ {local_node_id}]]

MongodbOutcomes(n, fails) ==
    [fail : fails, ping : IF host[n].active THEN BOOLEAN ELSE {FALSE}]

MongodbApply(n) ==
    /\ service = "mongodb"
    /\ \E o \in MongodbOutcomes(n, {"none", "write", "restart", "ready", "initiate", "add"}) :
         Commit("apply", n, mongodb_state_json,
                mongodb_handle_apply(n, mongodb_state_json, local_state[n], host[n], managed, o))

MongodbHealth(n) ==
    /\ service = "mongodb"
    /\ \E o \in MongodbOutcomes(n, {"none", "is_active", "rs_status"}) :
         Commit("health", n, mongodb_state_json,
                mongodb_handle_health(n, mongodb_state_json, local_state[n], host[n], managed, o))

MongodbDestroy(n) ==
    /\ service = "mongodb"
    /\ \E o \in [raises : BOOLEAN] :
         Commit("destroy", n, mongodb_state_json,
                mongodb_handle_destroy(n, mongodb_state_json, local_state[n], host[n], managed, o))

(***************************************************************************)
(* Clusters of one member: Redis, MongoDB and Knot start with the leader   *)
(* as the only intended member; other nodes may join later.                *)
(***************************************************************************)
InitSingle ==
    /\ service \in {"redis", "mongodb", "knot"}
    /\ clusterNodes = {"A"}
    /\ leader_node = "A"
    /\ wgNodeProperties = AllTunnelIps
    /\ nodeProperties = {}
    /\ clusterProperties = {}
    /\ swarm \in IF service = "knot" THEN KnotSwarms ELSE {NoSwarm}
    /\ local_state = [n \in Nodes |-> EmptyDict]
    /\ host = [n \in Nodes |-> [active |-> FALSE]]
    /\ managed = IF service = "knot" THEN [zones |-> {}] ELSE [members |-> {}]
    /\ rounds = << >>
    /\ roundNo = 0
    /\ sched = NoSchedule
    /\ envSteps = 0

NextSingle ==
    \/ \E n \in Nodes : RedisApply(n)
    \/ \E n \in Nodes : RedisHealth(n)
    \/ \E n \in Nodes : RedisDestroy(n)
    \/ \E n \in Nodes : MongodbApply(n)
    \/ \E n \in Nodes : MongodbHealth(n)
    \/ \E n \in Nodes : MongodbDestroy(n)
    \/ \E n \in Nodes : KnotApply(n)
    \/ \E n \in Nodes : KnotHealth(n)
    \/ \E n \in Nodes : KnotDestroy(n)
    \/ \E n \in Nodes : MemberJoins(n)
    \/ \E n \in Nodes : TunnelIpChanges(n, None)
    \/ \E n \in Nodes : UnitStops(n)

SpecSingle == InitSingle /\ [][NextSingle]_vars

(***************************************************************************)
(* PKI Authority (src/services/apps/pki-authority/main.py)                 *)
(* swarm = [redis_ready]: Redis nodes are published as ready               *)
(* host[n] = [running, vm_mode]: the LXC container runs; swarm-init or     *)
(* swarm-normal; clusterProperties are the authorityServiceProperties      *)
(* managed = [route]: the gateway route exists in Redis                    *)
(***************************************************************************)
\* PluginOutput(local_state=None): no carry-forward state is returned
NullState == [null |-> TRUE]

\* input_data.local_state or {}
OrEmpty(ls) == IF ls = NullState THEN EmptyDict ELSE ls

pki_state_json ==
    [clusterNodes |-> clusterNodes, cluster |-> [leader_node |-> leader_node],
     wgNodeProperties |-> wgNodeProperties, pkiNodeProperties |-> nodeProperties,
     authorityServiceProperties |-> clusterProperties, redis_ready |-> swarm.redis_ready]

\* the properties _wait_for_properties_generation collects
pki_collected_properties ==
    [pki_authority_auth_token |-> "token", pki_authority_pki_domain |-> "pki.example.org",
     pki_authority_network_key_hash |-> "hash", pki_authority_network_type |-> "trusted",
     pki_authority_initialized |-> "true"]

\* EventHandler.health: pki_node_ready is published when its value changes
pki_health_properties(local_node_id, state_json, healthy) ==
    LET value == IF healthy THEN "true" ELSE "false"
    IN  IF Prop(local_node_id, "pki_node_ready", value) \in state_json.pkiNodeProperties
        THEN EmptyDict ELSE [pki_node_ready |-> value]

\* EventHandler._create_output
pki_create_output(local_node_id, state_json, ls, hst, mgd, o, status, msg, np, cp, calls) ==
    LET is_leader == state_json.cluster.leader_node = local_node_id
        gateway == status = "completed" /\ is_leader
        routed == gateway /\ state_json.redis_ready /\ o.fail # "route"
        calls1 == IF gateway /\ state_json.redis_ready
                  THEN calls \o <<Call("set_gateway_route", "", o.fail # "route")>>
                  ELSE calls
        status1 == IF gateway /\ ~routed THEN "postponed" ELSE status
        msg1 == IF gateway /\ ~routed THEN "Gateway route is not configured" ELSE msg
        should_update_cluster == /\ hst.vm_mode = "swarm-init" \/ is_leader
                                 /\ status1 \in {"completed", "postponed"}
    IN  [out |-> PluginOutput(status1, msg1, np,
                              IF should_update_cluster THEN cp ELSE EmptyDict,
                              IF status1 = "completed" THEN ls ELSE NullState),
         calls |-> calls1,
         host |-> [hst EXCEPT !.running = IF Called([calls |-> calls], "container.start")
                                          THEN o.fail # "start"
                                          ELSE IF Called([calls |-> calls], "container.stop")
                                          THEN o.fail = "stop" ELSE hst.running],
         managed |-> IF routed THEN [route |-> TRUE] ELSE mgd]

\* self.authority_config.get(name, "")
authority_config(state_json, name) ==
    IF \E p \in state_json.authorityServiceProperties : p.name = name
    THEN (CHOOSE p \in state_json.authorityServiceProperties : p.name = name).value
    ELSE ""

\* EventHandler._check_for_missing_properties, given whether the domain, the
\* key hash and the network type are set; auth_token stands for the
\* file-based AUTHORITY_SERVICE_PROPERTIES
pki_check_for_missing_properties_files_only(state_json, has_domain, has_hash, has_type) ==
    {name \in {"pki_authority_auth_token"} : Falsy(authority_config(state_json, name))}

pki_check_for_missing_properties(state_json, has_domain, has_hash, has_type) ==
    {name \in {"pki_authority_auth_token"} : Falsy(authority_config(state_json, name))}
        \cup (IF has_domain THEN {} ELSE {"pki_authority_pki_domain"})
        \cup (IF has_hash THEN {} ELSE {"pki_authority_network_key_hash"})
        \cup (IF has_type THEN {} ELSE {"pki_authority_network_type"})

\* _handle_swarm_init calls _wait_for_properties_generation(timeout=30, interval=5)
PkiWaitTimeout == 30
PkiWaitInterval == 5

\* the seconds after the container start at which tee-pki has written every
\* property file, as far as a round can tell them apart
GeneratedAfter == {0, 10, 30}

\* a variant whose loop still polls when elapsed has reached the timeout
RECURSIVE wait_for_properties_generation_inclusive(_, _, _, _)
wait_for_properties_generation_inclusive(timeout, interval, elapsed, generated_after) ==
    IF ~(elapsed <= timeout) THEN [collected |-> FALSE, polls |-> 0]
    ELSE IF generated_after <= elapsed THEN [collected |-> TRUE, polls |-> 1]
    ELSE LET rest == wait_for_properties_generation_inclusive(timeout, interval,
                                                              elapsed + interval,
                                                              generated_after)
         IN  [collected |-> rest.collected, polls |-> rest.polls + 1]

\* EventHandler._wait_for_properties_generation from `elapsed` on: whether
\* every property file was collected, and the number of polling iterations
RECURSIVE wait_for_properties_generation(_, _, _, _)
wait_for_properties_generation(timeout, interval, elapsed, generated_after) ==
    IF ~(elapsed < timeout) THEN [collected |-> FALSE, polls |-> 0]
    ELSE IF generated_after <= elapsed THEN [collected |-> TRUE, polls |-> 1]
    ELSE LET rest == wait_for_properties_generation(timeout, interval, elapsed + interval,
                                                    generated_after)
         IN  [collected |-> rest.collected, polls |-> rest.polls + 1]

\* EventHandler.apply with _handle_swarm_init, _handle_swarm_normal,
\* _ensure_container_running and _configure_and_start_container
pki_apply(local_node_id, state_json, ls, hst, mgd, o) ==
    LET initialized == authority_config(state_json, "pki_authority_initialized") = "true"
        swarm_init == hst.vm_mode = "swarm-init"
        stored(name) == ~Falsy(authority_config(state_json, name))
        \* swarm-init reads what is not stored from the external sources
        reads == swarm_init /\ (~stored("pki_authority_pki_domain")
                                  \/ ~stored("pki_authority_network_key_hash"))
        missing == pki_check_for_missing_properties(state_json,
                       swarm_init \/ stored("pki_authority_pki_domain"),
                       swarm_init \/ stored("pki_authority_network_key_hash"),
                       swarm_init \/ stored("pki_authority_network_type"))
        restart == hst.running /\ (~initialized \/ o.changed)
        stopped == IF restart THEN <<Call("container.stop", "", o.fail # "stop")>> ELSE << >>
        started == stopped \o <<Call("container.start", "", o.fail # "start")>>
        waited == wait_for_properties_generation(PkiWaitTimeout, PkiWaitInterval, 0,
                                                 o.generated_after)
        polled == started \o [i \in 1..waited.polls |->
                                 Call("read_property_from_fs", "",
                                      waited.collected /\ i = waited.polls)]
        np == pki_health_properties(local_node_id, state_json, o.healthy)
        out(status, msg, props, cp, calls) ==
            pki_create_output(local_node_id, state_json, ls, hst, mgd, o, status, msg, props,
                              cp, calls)
    IN  IF Falsy(get_node_tunnel_ip(local_node_id, state_json.wgNodeProperties))
        THEN out("postponed", "Waiting for WireGuard tunnel IP to be configured", EmptyDict,
                 EmptyDict, << >>)
        ELSE IF reads /\ o.fail = "param"
        THEN out("error", "Failed to get PKI domain from external source", EmptyDict,
                 EmptyDict, << >>)
        ELSE IF ~swarm_init /\ ~initialized
        THEN out("postponed", "Waiting for authority service properties to be initialized",
                 EmptyDict, EmptyDict, << >>)
        ELSE IF initialized /\ missing # {}
        THEN out("error", "Service marked as initialized but missing required properties",
                 EmptyDict, EmptyDict, << >>)
        ELSE IF initialized /\ hst.running /\ ~o.changed
        THEN out("completed", None, EmptyDict, EmptyDict, << >>)
        ELSE IF restart /\ o.fail = "stop"
        THEN out("error", "Apply failed: Failed to stop container", EmptyDict, EmptyDict,
                 stopped)
        ELSE IF o.fail = "start"
        THEN out("error", "Apply failed: Failed to start container", EmptyDict, EmptyDict,
                 started)
        ELSE IF initialized
        THEN out("completed", None, np, EmptyDict, started)
        ELSE IF ~waited.collected
        THEN out("postponed", "Timeout waiting for tee-pki to generate property files", np,
                 EmptyDict, polled)
        ELSE out("completed", None, np, pki_collected_properties, polled)

pki_handle_init(local_node_id, state_json, ls, hst, mgd, o) ==
    [out |-> PluginOutput(IF o.fail = "init" THEN "error" ELSE "completed",
                          IF o.fail = "init" THEN "Failed to initialize PKI" ELSE None,
                          EmptyDict, EmptyDict, ls),
     calls |-> <<Call("init_container", "", o.fail # "init")>>, host |-> hst, managed |-> mgd]

pki_handle_health(local_node_id, state_json, ls, hst, mgd, o) ==
    LET is_healthy == hst.running /\ o.healthy
    IN  [out |-> PluginOutput(IF is_healthy THEN "completed" ELSE "error",
                              IF is_healthy THEN None ELSE "PKI service is not healthy",
                              pki_health_properties(local_node_id, state_json, is_healthy),
                              EmptyDict, ls),
         calls |-> << >>, host |-> hst, managed |-> mgd]

\* EventHandler.destroy
pki_destroy(local_node_id, state_json, ls, hst, mgd, o) ==
    LET last_node == Cardinality(state_json.clusterNodes) <= 1
        has_domain == \E p \in state_json.authorityServiceProperties :
                          p.name = "pki_authority_pki_domain" /\ ~Falsy(p.value)
        destroyed == <<Call("container.destroy", "", o.fail # "destroy")>>
        deletes == last_node /\ has_domain /\ state_json.redis_ready
        deleted == destroyed \o <<Call("delete_route_from_redis", "", o.fail # "route")>>
    IN  IF o.fail = "destroy"
        THEN [out |-> PluginOutput("error", "Failed to destroy container", EmptyDict,
                                   EmptyDict, OrEmpty(ls)),
              calls |-> destroyed, host |-> hst, managed |-> mgd]
        ELSE IF deletes /\ o.fail = "route"
        THEN [out |-> PluginOutput("error", "Destroy failed", EmptyDict, EmptyDict,
                                   OrEmpty(ls)),
              calls |-> deleted, host |-> [hst EXCEPT !.running = FALSE], managed |-> mgd]
        ELSE [out |-> PluginOutput("completed", None, EmptyDict, EmptyDict, OrEmpty(ls)),
              calls |-> IF deletes THEN deleted ELSE destroyed,
              host |-> [hst EXCEPT !.running = FALSE],
              managed |-> IF deletes THEN [route |-> FALSE] ELSE mgd]

\* what the commands of a round do: the first step that fails, whether the
\* stored properties differ from the files, whether the service is healthy
PkiOutcomes(fails) ==
    {o \in [fail : fails, changed : BOOLEAN, healthy : BOOLEAN,
            generated_after : GeneratedAfter] :
        /\ o.fail # "none" => ~o.changed /\ o.healthy
        /\ o.fail = "properties" <=> o.generated_after >= PkiWaitTimeout}

PkiInit(n) ==
    /\ service = "pki-authority"
    /\ \E o \in PkiOutcomes({"none", "init"}) :
         Commit("init", n, pki_state_json,
                pki_handle_init(n, pki_state_json, local_state[n], host[n], managed, o))

PkiApply(n) ==
    /\ service = "pki-authority"
    /\ \E o \in PkiOutcomes({"none", "param", "stop", "start", "properties", "route"}) :
         Commit("apply", n, pki_state_json,
                pki_apply(n, pki_state_json, OrEmpty(local_state[n]), host[n], managed, o))

PkiHealth(n) ==
    /\ service = "pki-authority"
    /\ \E o \in PkiOutcomes({"none"}) :
         Commit("health", n, pki_state_json,
                pki_handle_health(n, pki_state_json, local_state[n], host[n], managed, o))

PkiDestroy(n) ==
    /\ service = "pki-authority"
    /\ \E o \in PkiOutcomes({"none", "destroy", "route"}) :
         Commit("destroy", n, pki_state_json,
                pki_destroy(n, pki_state_json, local_state[n], host[n], managed, o))

(***************************************************************************)
(* test-app-route (src/services/apps/test-app-route/main.py)               *)
(* swarm = [redis_ready]: a Redis Sentinel endpoint is published           *)
(* managed = [route]: the route of the application exists in Redis         *)
(***************************************************************************)
route_state_json ==
    [clusterNodes |-> clusterNodes, cluster |-> [leader_node |-> leader_node],
     wgNodeProperties |-> wgNodeProperties, redis_ready |-> swarm.redis_ready]

is_local_node_leader(local_node_id, state_json) == get_leader_node(state_json) = local_node_id

\* get_redis_master_endpoint: Sentinel endpoints exist and one of them answers
get_redis_master_endpoint(state_json, o) == state_json.redis_ready /\ o.fail # "sentinel"

route_handle_init(local_node_id, state_json, ls, hst, mgd, o) ==
    LET reply(status, msg) ==
            [out |-> PluginOutput(status, msg, EmptyDict, EmptyDict, OrEmpty(ls)),
             calls |-> << >>, host |-> hst, managed |-> mgd]
    IN  IF ~is_local_node_leader(local_node_id, state_json) THEN reply("completed", None)
        ELSE IF ~get_redis_master_endpoint(state_json, o)
        THEN reply("postponed", "No Redis master endpoint available (init)")
        ELSE IF o.fail = "redis" THEN reply("postponed", "init: failed to ping Redis master")
        ELSE reply("completed", None)

route_handle_apply(local_node_id, state_json, ls, hst, mgd, o) ==
    LET success == get_redis_master_endpoint(state_json, o) /\ o.fail # "redis"
        ensured == <<Call("ensure_route_in_redis", "", success)>>
    IN  IF ~is_local_node_leader(local_node_id, state_json)
        THEN [out |-> PluginOutput("completed", None, EmptyDict, EmptyDict, OrEmpty(ls)),
              calls |-> << >>, host |-> hst, managed |-> mgd]
        ELSE IF ~success
        THEN [out |-> PluginOutput("postponed", "Failed to configure route in Redis",
                                   EmptyDict, EmptyDict, OrEmpty(ls)),
              calls |-> ensured, host |-> hst, managed |-> mgd]
        ELSE [out |-> PluginOutput("completed", None, [test_app_route_configured |-> "true"],
                                   EmptyDict, OrEmpty(ls)),
              calls |-> ensured, host |-> hst, managed |-> [route |-> TRUE]]

route_handle_health(local_node_id, state_json, ls, hst, mgd, o) ==
    LET reply(status, msg) ==
            [out |-> PluginOutput(status, msg, EmptyDict, EmptyDict, OrEmpty(ls)),
             calls |-> << >>, host |-> hst, managed |-> mgd]
    IN  IF ~is_local_node_leader(local_node_id, state_json) THEN reply("completed", None)
        ELSE IF ~get_redis_master_endpoint(state_json, o)
        THEN reply("postponed", "No Redis master endpoint available")
        ELSE IF o.fail = "redis" THEN reply("postponed", "Failed to verify route in Redis")
        ELSE IF ~mgd.route THEN reply("postponed", "Route not found in Redis")
        ELSE reply("completed", None)

route_handle_destroy(local_node_id, state_json, ls, hst, mgd, o) ==
    LET is_leader == is_local_node_leader(local_node_id, state_json)
        success == get_redis_master_endpoint(state_json, o) /\ o.fail # "redis"
    IN  [out |-> PluginOutput("completed", None, [test_app_route_configured |-> None],
                              EmptyDict, OrEmpty(ls)),
         calls |-> IF is_leader THEN <<Call("delete_route_from_redis", "", success)>>
                   ELSE << >>,
         host |-> hst,
         managed |-> IF is_leader /\ success THEN [route |-> FALSE] ELSE mgd]

RouteOutcomes == [fail : {"none", "sentinel", "redis"}]

RouteInit(n) ==
    /\ service = "test-app-route"
    /\ \E o \in RouteOutcomes :
         Commit("init", n, route_state_json,
                route_handle_init(n, route_state_json, local_state[n], host[n], managed, o))

RouteApply(n) ==
    /\ service = "test-app-route"
    /\ \E o \in RouteOutcomes :
         Commit("apply", n, route_state_json,
                route_handle_apply(n, route_state_json, local_state[n], host[n], managed, o))

RouteHealth(n) ==
    /\ service = "test-app-route"
    /\ \E o \in RouteOutcomes :
         Commit("health", n, route_state_json,
                route_handle_health(n, route_state_json, local_state[n], host[n], managed, o))

RouteDestroy(n) ==
    /\ service = "test-app-route"
    /\ \E o \in RouteOutcomes :
         Commit("destroy", n, route_state_json,
                route_handle_destroy(n, route_state_json, local_state[n], host[n], managed, o))

(***************************************************************************)
(* The services that hand the carry-forward state through: the runtime     *)
(* starts them with the state it has stored for the node, empty or not.    *)
(***************************************************************************)
StoredStates == {EmptyDict, [deployment |-> "previous"]}

InitCarry ==
    /\ service \in {"pki-authority", "test-app-route"}
    /\ clusterNodes = Nodes
    /\ leader_node = "A"
    /\ wgNodeProperties = AllTunnelIps
    /\ nodeProperties = {}
    /\ clusterProperties = {}
    /\ swarm \in [redis_ready : BOOLEAN]
    /\ \E ls \in StoredStates : local_state = [n \in Nodes |-> ls]
    /\ \E m \in {"swarm-init", "swarm-normal"} :
         host = [n \in Nodes |-> [running |-> FALSE,
                                  vm_mode |-> IF n = "A" THEN m ELSE "swarm-normal"]]
    /\ managed = [route |-> FALSE]
    /\ rounds = << >>
    /\ roundNo = 0
    /\ sched = NoSchedule
    /\ envSteps = 0

NextCarry ==
    \/ \E n \in Nodes : PkiInit(n)
    \/ \E n \in Nodes : PkiApply(n)
    \/ \E n \in Nodes : PkiHealth(n)
    \/ \E n \in Nodes : PkiDestroy(n)
    \/ \E n \in Nodes : RouteInit(n)
    \/ \E n \in Nodes : RouteApply(n)
    \/ \E n \in Nodes : RouteHealth(n)
    \/ \E n \in Nodes : RouteDestroy(n)
    \/ \E n \in Nodes : TunnelIpChanges(n, None)

SpecCarry == InitCarry /\ [][NextCarry]_vars

(***************************************************************************)
(* The PKI authority on its own: the authority service properties live in  *)
(* the swarm database, where an entry can be deleted or emptied by others. *)
(***************************************************************************)
AuthorityPropertyNames ==
    {"pki_authority_auth_token", "pki_authority_pki_domain",
     "pki_authority_network_key_hash", "pki_authority_network_type"}

\* a cluster property that has a value is deleted (None) or emptied ("")
ClusterPropertyLost(name, v) ==
    /\ envSteps < MaxEnvSteps
    /\ \E p \in clusterProperties : p.name = name /\ ~Falsy(p.value)
    /\ clusterProperties' = PublishedCluster(clusterProperties, name :> v)
    /\ envSteps' = envSteps + 1
    /\ UNCHANGED <<service, clusterNodes, leader_node, wgNodeProperties, nodeProperties,
                   swarm, local_state, host, managed, rounds, roundNo, sched>>

InitPki ==
    /\ service = "pki-authority"
    /\ clusterNodes = Nodes
    /\ leader_node = "A"
    /\ wgNodeProperties = AllTunnelIps
    /\ nodeProperties = {}
    /\ clusterProperties = {}
    /\ swarm \in [redis_ready : BOOLEAN]
    /\ local_state = [n \in Nodes |-> EmptyDict]
    /\ host = [n \in Nodes |-> [running |-> FALSE,
                                vm_mode |-> IF n = "A" THEN "swarm-init" ELSE "swarm-normal"]]
    /\ managed = [route |-> FALSE]
    /\ rounds = << >>
    /\ roundNo = 0
    /\ sched = NoSchedule
    /\ envSteps = 0

NextPki ==
    \/ \E n \in Nodes : PkiInit(n)
    \/ \E n \in Nodes : PkiApply(n)
    \/ \E n \in Nodes : PkiHealth(n)
    \/ \E n \in Nodes : PkiDestroy(n)
    \/ \E name \in AuthorityPropertyNames : ClusterPropertyLost(name, None)
    \/ \E name \in AuthorityPropertyNames : ClusterPropertyLost(name, "")

SpecPki == InitPki /\ [][NextPki]_vars

(***************************************************************************)
(* Knot on its own, as a cluster of the single member A: the TSIG key is   *)
(* kept in the cluster properties of the swarm database.                   *)
(***************************************************************************)
InitKnot == InitSingle /\ service = "knot"

NextKnot ==
    \/ \E n \in Nodes : KnotApply(n)
    \/ \E n \in Nodes : KnotHealth(n)
    \/ \E n \in Nodes : KnotDestroy(n)
    \/ \E name \in {"knot_tsig_key_name", "knot_tsig_key_secret"} :
          ClusterPropertyLost(name, None)
    \/ \E n \in Nodes : LeaderChanges(n)

SpecKnot == InitKnot /\ [][NextKnot]_vars

(***************************************************************************)
(* sp-api-gateway (src/services/apps/sp-api-gateway/main.py)               *)
(* host[n] = [active]: the sp-svc-api-gateway unit is active               *)
(* the WireGuard properties of the NATS cluster are the StateView's        *)
(* natsWgNodeProperties; managed = [nats_host]: the host last configured   *)
(***************************************************************************)
gateway_state_json ==
    [clusterNodes |-> clusterNodes, cluster |-> [leader_node |-> leader_node],
     natsWgNodeProperties |-> wgNodeProperties]

pick_nats_host(local_node_id, state_json) ==
    LET nats_wg_props == state_json.natsWgNodeProperties
        local_ip == get_node_tunnel_ip(local_node_id, nats_wg_props)
        others == {p \in nats_wg_props : ~Falsy(p.value)}
    IN  IF ~Falsy(local_ip) THEN local_ip
        ELSE IF others # {} THEN (CHOOSE p \in others : TRUE).value
        ELSE "127.0.0.1"

\* what `systemctl restart` wrote to stderr when it failed
GatewayStderr == {"", "Job for sp-svc-api-gateway.service failed"}

gateway_handle_apply(local_node_id, state_json, ls, hst, mgd, o) ==
    LET nats_host == pick_nats_host(local_node_id, state_json)
        wrote == <<Call("ensure_config_written", nats_host, o.fail # "write")>>
        restarted == wrote \o <<Call("systemctl", "daemon-reload", TRUE),
                                Call("systemctl", "enable", TRUE),
                                Call("systemctl", "restart", o.fail # "restart")>>
    IN  IF o.fail = "write"
        THEN [out |-> PluginOutput("error", "Permission denied", EmptyDict, EmptyDict, ls),
              calls |-> wrote, host |-> hst, managed |-> mgd]
        ELSE IF o.fail = "restart"
        THEN [out |-> PluginOutput("error", o.stderr, EmptyDict, EmptyDict, ls),
              calls |-> restarted, host |-> [active |-> FALSE],
              managed |-> [nats_host |-> nats_host]]
        ELSE [out |-> PluginOutput("completed", None, [api_gateway_node_ready |-> "true"],
                                   EmptyDict, ls),
              calls |-> restarted, host |-> [active |-> TRUE],
              managed |-> [nats_host |-> nats_host]]

gateway_handle_health(local_node_id, state_json, ls, hst, mgd, o) ==
    [out |-> IF o.fail = "status"
             THEN PluginOutput("postponed", "Failed to check service status", EmptyDict,
                               EmptyDict, ls)
             ELSE IF ~hst.active
             THEN PluginOutput("postponed", "Service status: inactive", EmptyDict, EmptyDict, ls)
             ELSE PluginOutput("completed", None, EmptyDict, EmptyDict, ls),
     calls |-> << >>, host |-> hst, managed |-> mgd]

gateway_handle_destroy(local_node_id, state_json, ls, hst, mgd, o) ==
    IF o.raises
    THEN [out |-> PluginOutput("error", "Failed to destroy sp-svc-api-gateway.service",
                               EmptyDict, EmptyDict, EmptyDict),
          calls |-> <<Call("systemctl", "stop", TRUE)>>, host |-> hst, managed |-> mgd]
    ELSE [out |-> PluginOutput("completed", None, [api_gateway_node_ready |-> None],
                               EmptyDict, EmptyDict),
          calls |-> <<Call("systemctl", "stop", TRUE), Call("systemctl", "disable", TRUE)>>,
          host |-> [active |-> FALSE], managed |-> mgd]

GatewayOutcomes ==
    {o \in [fail : {"none", "write", "restart"}, stderr : GatewayStderr] :
        o.fail # "restart" => o.stderr = ""}

GatewayApply(n) ==
    /\ service = "sp-api-gateway"
    /\ \E o \in GatewayOutcomes :
         Commit("apply", n, gateway_state_json,
                gateway_handle_apply(n, gateway_state_json, local_state[n], host[n], managed, o))

GatewayHealth(n) ==
    /\ service = "sp-api-gateway"
    /\ \E o \in [fail : {"none", "status"}] :
         Commit("health", n, gateway_state_json,
                gateway_handle_health(n, gateway_state_json, local_state[n], host[n], managed, o))

GatewayDestroy(n) ==
    /\ service = "sp-api-gateway"
    /\ \E o \in [raises : BOOLEAN] :
         Commit("destroy", n, gateway_state_json,
                gateway_handle_destroy(n, gateway_state_json, local_state[n], host[n], managed, o))

InitGateway ==
    /\ service = "sp-api-gateway"
    /\ clusterNodes = Nodes
    /\ leader_node = "A"
    /\ wgNodeProperties = AllTunnelIps
    /\ nodeProperties = {}
    /\ clusterProperties = {}
    /\ swarm = NoSwarm
    /\ local_state = [n \in Nodes |-> EmptyDict]
    /\ host = [n \in Nodes |-> [active |-> FALSE]]
    /\ managed = [nats_host |-> None]
    /\ rounds = << >>
    /\ roundNo = 0
    /\ sched = NoSchedule
    /\ envSteps = 0

NextGateway ==
    \/ \E n \in Nodes : GatewayApply(n)
    \/ \E n \in Nodes : GatewayHealth(n)
    \/ \E n \in Nodes : GatewayDestroy(n)
    \/ \E n \in Nodes : TunnelIpChanges(n, None)
    \/ \E n \in Nodes : UnitStops(n)

SpecGateway == InitGateway /\ [][NextGateway]_vars

(***************************************************************************)
(* CockroachDB and Redis with an intended member list that is empty or     *)
(* holds the single node A, and with or without tunnel addresses.          *)
(***************************************************************************)
InitEmpty ==
    /\ service \in {"cockroachdb", "redis"}
    /\ clusterNodes \in {{}, {"A"}}
    /\ leader_node = "A"
    /\ wgNodeProperties \in {AllTunnelIps, {}}
    /\ nodeProperties = {}
    /\ clusterProperties = {}
    /\ swarm = NoSwarm
    /\ local_state = [n \in Nodes |-> EmptyDict]
    /\ host = [n \in Nodes |-> [active |-> FALSE]]
    /\ managed = IF service = "redis" THEN [members |-> {}] ELSE [initialized |-> FALSE]
    /\ rounds = << >>
    /\ roundNo = 0
    /\ sched = NoSchedule
    /\ envSteps = 0

NextEmpty ==
    \/ \E n \in Nodes : CrdbApply(n) \/ CrdbHealth(n) \/ CrdbDestroy(n)
    \/ \E n \in Nodes : RedisApply(n) \/ RedisHealth(n) \/ RedisDestroy(n)
    \/ \E n \in Nodes : MemberJoins(n)

SpecEmpty == InitEmpty /\ [][NextEmpty]_vars

(***************************************************************************)
(* RKE2 and Redis while a member leaves and the leadership moves from A to *)
(* another member, in either order.                                        *)
(***************************************************************************)
\* the StateView names member n as leader from now on, instead of A
LeaderMoves(n) ==
    /\ leader_node = "A"
    /\ n \in clusterNodes \ {"A"}
    /\ leader_node' = n
    /\ UNCHANGED <<service, clusterNodes, wgNodeProperties, nodeProperties,
                   clusterProperties, swarm, local_state, host, managed, rounds, roundNo,
                   sched, envSteps>>

InitHandover == InitRke2 \/ InitRedis

NextHandover ==
    \/ \E n \in Nodes : Rke2Apply(n) \/ Rke2Health(n) \/ Rke2Destroy(n)
    \/ \E n \in Nodes : RedisApply(n) \/ RedisHealth(n) \/ RedisDestroy(n)
    \/ \E n \in Nodes : MemberLeaves(n)
    \/ \E n \in Nodes : LeaderMoves(n)

SpecHandover == InitHandover /\ [][NextHandover]_vars

(***************************************************************************)
(* swarm-cloud-api (src/services/apps/swarm-cloud-api/main.py)             *)
(* swarm = [cockroach_cluster, cockroach_ready, routing]: the CockroachDB  *)
(*   cluster has an id; the nodes that published cockroachdb_node_ready;   *)
(*   globalId, base_domain, Redis, Knot and the TSIG key are all there     *)
(* host[n] = [active]: the swarm-cloud-api unit is active                  *)
(* managed = [schema, route]: the database schema is in place; the API's   *)
(*   DNS record and route exist                                            *)
(***************************************************************************)
api_state_json ==
    [clusterNodes |-> clusterNodes, cluster |-> [leader_node |-> leader_node],
     wgNodeProperties |-> wgNodeProperties, clusterProperties |-> clusterProperties,
     cockroachCluster |-> [id |-> swarm.cockroach_cluster],
     cockroachClusterNodes |-> clusterNodes,
     cockroachNodeProperties |->
        {Prop(n, "cockroachdb_node_ready", "true") : n \in swarm.cockroach_ready},
     routing |-> swarm.routing]

\* swarm_cloud_api_schema_initialized = "true" is among the cluster properties
api_schema_initialized(state_json) ==
    \E p \in state_json.clusterProperties :
        p.name = "swarm_cloud_api_schema_initialized" /\ p.value = "true"

\* the host of a ready CockroachDB node, the local one first, or None
get_cockroach_connection_info(local_node_id, state_json) ==
    LET ready_nodes == {p.node_id : p \in state_json.cockroachNodeProperties}
        wg_props == state_json.wgNodeProperties
        usable == {n \in state_json.cockroachClusterNodes \cap ready_nodes :
                      ~Falsy(get_node_tunnel_ip(n, wg_props))}
    IN  IF local_node_id \in ready_nodes
           /\ ~Falsy(get_node_tunnel_ip(local_node_id, wg_props))
        THEN get_node_tunnel_ip(local_node_id, wg_props)
        ELSE IF usable # {}
        THEN get_node_tunnel_ip(CHOOSE n \in usable : TRUE, wg_props)
        ELSE None

\* a variant in which every node runs the schema sync
initialize_schema_if_needed_any_node(local_node_id, state_json, o) ==
    IF api_schema_initialized(state_json)
    THEN [success |-> TRUE, error |-> None, calls |-> << >>]
    ELSE IF get_cockroach_connection_info(local_node_id, state_json) = None
    THEN [success |-> FALSE, error |-> "No CockroachDB connection available",
          calls |-> << >>]
    ELSE [success |-> o.fail # "sync",
          error |-> IF o.fail = "sync" THEN "Schema sync failed" ELSE None,
          calls |-> <<Call("schema-sync", "", o.fail # "sync")>>]

\* initialize_schema_if_needed: (success, error_message) and the command run
initialize_schema_if_needed(local_node_id, state_json, o) ==
    IF api_schema_initialized(state_json)
    THEN [success |-> TRUE, error |-> None, calls |-> << >>]
    ELSE IF ~is_local_node_leader(local_node_id, state_json)
    THEN [success |-> FALSE, error |-> "Waiting for leader to initialize schema",
          calls |-> << >>]
    ELSE IF get_cockroach_connection_info(local_node_id, state_json) = None
    THEN [success |-> FALSE, error |-> "No CockroachDB connection available",
          calls |-> << >>]
    ELSE [success |-> o.fail # "sync",
          error |-> IF o.fail = "sync" THEN "Schema sync failed" ELSE None,
          calls |-> <<Call("schema-sync", "", o.fail # "sync")>>]

api_handle_apply(local_node_id, state_json, ls, hst, mgd, o) ==
    LET cluster_nodes == state_json.clusterNodes
        wg_props == state_json.wgNodeProperties
        schema == initialize_schema_if_needed(local_node_id, state_json, o)
        synced == \E k \in 1..Len(schema.calls) : schema.calls[k].ok
        mgd1 == IF synced THEN [mgd EXCEPT !.schema = TRUE] ELSE mgd
        configured == schema.calls
                        \o <<Call("create_config_file", local_node_id, o.fail # "config")>>
        enabled == configured \o <<Call("systemctl", "enable", o.fail # "enable")>>
        restarted == enabled \o <<Call("systemctl", "restart", o.fail # "restart")>>
        waited == restarted \o <<Call("wait_for_api_ready", "", o.fail # "api")>>
        is_leader == is_local_node_leader(local_node_id, state_json)
        schema_already_marked == api_schema_initialized(state_json)
        cluster_properties ==
            IF is_leader /\ ~schema_already_marked
            THEN [swarm_cloud_api_schema_initialized |-> "true"] ELSE EmptyDict
        updates == is_leader /\ state_json.routing
        updated == IF updates
                   THEN waited \o <<Call("update_api_dns_and_routing", "", o.fail # "dns")>>
                   ELSE waited
        stop(status, msg, calls, h, m) ==
            [out |-> PluginOutput(status, msg, EmptyDict, EmptyDict, ls),
             calls |-> calls, host |-> h, managed |-> m]
    IN  IF ~check_all_nodes_have_wg(cluster_nodes, wg_props)
        THEN stop("postponed", "Waiting for WireGuard to be configured on all nodes", << >>,
                  hst, mgd)
        ELSE IF Falsy(state_json.cockroachCluster.id)
        THEN stop("postponed", "Waiting for CockroachDB cluster to be created", << >>, hst, mgd)
        ELSE IF state_json.cockroachNodeProperties = {}
        THEN stop("postponed", "Waiting for at least one CockroachDB node to be ready", << >>,
                  hst, mgd)
        ELSE IF ~schema.success
        THEN stop("postponed", schema.error, schema.calls, hst, mgd)
        ELSE IF o.fail = "config"
        THEN stop("error", "Failed to create config", configured, hst, mgd1)
        ELSE IF o.fail = "enable"
        THEN stop("error", "Failed to enable swarm-cloud-api", enabled, hst, mgd1)
        ELSE IF o.fail = "restart"
        THEN stop("error", "Failed to start swarm-cloud-api", restarted, [active |-> FALSE],
                  mgd1)
        ELSE IF o.fail = "api"
        THEN stop("postponed", "Swarm-cloud-api did not become ready within timeout", waited,
                  [active |-> TRUE], mgd1)
        ELSE [out |-> PluginOutput("completed", None, [swarm_cloud_api_node_ready |-> "true"],
                                   cluster_properties, ls),
              calls |-> updated, host |-> [active |-> TRUE],
              managed |-> IF updates /\ o.fail # "dns" THEN [mgd1 EXCEPT !.route = TRUE]
                          ELSE mgd1]

api_handle_health(local_node_id, state_json, ls, hst, mgd, o) ==
    LET stop(status, msg) ==
            [out |-> PluginOutput(status, msg, EmptyDict, EmptyDict, ls),
             calls |-> << >>, host |-> hst, managed |-> mgd]
    IN  IF o.fail = "is_active" THEN stop("error", "Failed to check service status")
        ELSE IF ~hst.active THEN stop("postponed", "Swarm-cloud-api service is not running")
        ELSE stop("completed", None)

api_handle_destroy(local_node_id, state_json, ls, hst, mgd, o) ==
    IF o.raises
    THEN [out |-> PluginOutput("error", "Failed to destroy swarm-cloud-api", EmptyDict,
                               EmptyDict, EmptyDict),
          calls |-> <<Call("systemctl", "stop", TRUE)>>, host |-> hst, managed |-> mgd]
    ELSE [out |-> PluginOutput("completed", None, [swarm_cloud_api_node_ready |-> None],
                               EmptyDict, EmptyDict),
          calls |-> <<Call("systemctl", "stop", TRUE), Call("systemctl", "disable", TRUE)>>,
          host |-> [active |-> FALSE], managed |-> mgd]

\* the first failing step of an apply round, if any
ApiOutcomes == [fail : {"none", "sync", "config", "enable", "restart", "api", "dns"}]

ApiApply(n) ==
    /\ service = "swarm-cloud-api"
    /\ \E o \in ApiOutcomes :
         Commit("apply", n, api_state_json,
                api_handle_apply(n, api_state_json, local_state[n], host[n], managed, o))

ApiHealth(n) ==
    /\ service = "swarm-cloud-api"
    /\ \E o \in [fail : {"none", "is_active"}] :
         Commit("health", n, api_state_json,
                api_handle_health(n, api_state_json, local_state[n], host[n], managed, o))

ApiDestroy(n) ==
    /\ service = "swarm-cloud-api"
    /\ \E o \in [raises : BOOLEAN] :
         Commit("destroy", n, api_state_json,
                api_handle_destroy(n, api_state_json, local_state[n], host[n], managed, o))

ApiSwarms ==
    [cockroach_cluster : {None, "crdb"}, cockroach_ready : {{}, {"B"}}, routing : BOOLEAN]

InitApi ==
    /\ service = "swarm-cloud-api"
    /\ clusterNodes = Nodes
    /\ leader_node = "A"
    /\ wgNodeProperties = AllTunnelIps
    /\ nodeProperties = {}
    /\ clusterProperties = {}
    /\ swarm \in ApiSwarms
    /\ local_state = [n \in Nodes |-> EmptyDict]
    /\ host = [n \in Nodes |-> [active |-> FALSE]]
    /\ managed = [schema |-> FALSE, route |-> FALSE]
    /\ rounds = << >>
    /\ roundNo = 0
    /\ sched = NoSchedule
    /\ envSteps = 0

NextApi ==
    \/ \E n \in Nodes : ApiApply(n)
    \/ \E n \in Nodes : ApiHealth(n)
    \/ \E n \in Nodes : ApiDestroy(n)
    \/ \E n \in Nodes : LeaderChanges(n)
    \/ \E n \in Nodes : TunnelIpChanges(n, None)
    \/ ClusterPropertyLost("swarm_cloud_api_schema_initialized", None)

SpecApi == InitApi /\ [][NextApi]_vars

(***************************************************************************)
(* CockroachDB, RKE2 and Redis together: the services whose apply starts   *)
(* with the WireGuard readiness gate; a tunnel address may be withdrawn or *)
(* published empty.                                                        *)
(***************************************************************************)
InitGate == InitCrdb \/ InitRke2 \/ InitRedis

NextGate ==
    \/ NextCrdb
    \/ NextRke2
    \/ NextRedis
    \/ \E n \in Nodes : TunnelIpChanges(n, "")

SpecGate == InitGate /\ [][NextGate]_vars

(***************************************************************************)
(* The services with a leader-run cluster bootstrap: CockroachDB, RKE2,    *)
(* Redis, MongoDB and Knot, with three members or one; the leadership may  *)
(* move to another node.                                                   *)
(***************************************************************************)
InitBootstrap == InitGate \/ InitSingle

NextBootstrap ==
    \/ \E n \in Nodes : CrdbApply(n) \/ CrdbHealth(n) \/ CrdbDestroy(n)
    \/ \E n \in Nodes : Rke2Apply(n) \/ Rke2Health(n) \/ Rke2Destroy(n)
    \/ \E n \in Nodes : RedisApply(n) \/ RedisHealth(n) \/ RedisDestroy(n)
    \/ \E n \in Nodes : MongodbApply(n) \/ MongodbHealth(n) \/ MongodbDestroy(n)
    \/ \E n \in Nodes : KnotApply(n) \/ KnotHealth(n) \/ KnotDestroy(n)
    \/ \E n \in Nodes : LeaderChanges(n)

SpecBootstrap == InitBootstrap /\ [][NextBootstrap]_vars

(***************************************************************************)
(* RKE2 stale-node removal                                                 *)
(***************************************************************************)
IsLeaderRound(r) == r.node = r.state.cluster.leader_node

\* round r2 saw the StateView that round r1 left behind
UnchangedView(r1, r2) == r2.view = r1.view_after

DeletesOf(r) == {r.calls[i].arg : i \in CallsOf(r, "delete_node")}

\* a leader round that carries known_node_ids {A,B,C}, sees clusterNodes
\* {A,C}, and starts with B registered in Kubernetes
C1_Case(r) ==
    /\ r.cmd \in {"apply", "health"}
    /\ r.node = r.state.cluster.leader_node
    /\ known_node_ids(r.in_local_state) = {"A", "B", "C"}
    /\ r.state.clusterNodes = {"A", "C"}
    /\ hash_node_id("B") \in r.in_managed.k8s_nodes

\* the round obtained a listing of the Kubernetes nodes that names B
C1_Listed(r) ==
    \E i \in CallsOf(r, "get_k8s_nodes") : r.calls[i].ok

\* C1 (as amended): in such a leader round delete_node is called at most
\* once and only for B, never for A, C or a member still in clusterNodes;
\* it is called exactly once when the round reaches remove_stale_nodes and
\* kubectl lists the nodes.
C1_RemovalSafety ==
    (rounds # << >> /\ C1_Case(Last(rounds))) =>
        LET r == Last(rounds)
        IN  /\ DeletesOf(r) \subseteq {hash_node_id("B")}
            /\ Cardinality(CallsOf(r, "delete_node")) <= 1
            /\ C1_Listed(r) <=> Cardinality(CallsOf(r, "delete_node")) = 1

\* C1 as stated: every such leader round calls delete_node exactly once, for B
C1_AsStated ==
    (rounds # << >> /\ C1_Case(Last(rounds))) =>
        LET r == Last(rounds)
        IN  /\ DeletesOf(r) = {hash_node_id("B")}
            /\ Cardinality(CallsOf(r, "delete_node")) = 1

C1_Witness ==
    /\ rounds # << >>
    /\ C1_Case(Last(rounds))
    /\ Cardinality(CallsOf(Last(rounds), "delete_node")) = 1
    /\ DeletesOf(Last(rounds)) = {hash_node_id("B")}
    /\ hash_node_id("B") \notin managed.k8s_nodes

\* the ids whose delete_node failed in round r
FailedDeletes(r) ==
    {n \in Nodes : \E i \in CallsOf(r, "delete_node") :
                      r.calls[i].arg = hash_node_id(n) /\ ~r.calls[i].ok}

\* C2: a member whose delete_node failed in a leader round stays in the
\* known_node_ids the round returns, and the next leader round with the same
\* clusterNodes calls delete_node for it again.
C2_RemovalRetry ==
    /\ \A i \in 1..Len(rounds) :
          (rounds[i].cmd \in {"apply", "health"}
             /\ rounds[i].node = rounds[i].state.cluster.leader_node)
          => FailedDeletes(rounds[i]) \subseteq known_node_ids(rounds[i].local_state)
    /\ (Len(rounds) = 2
          /\ rounds[2].cmd \in {"apply", "health"}
          /\ rounds[2].node = rounds[2].state.cluster.leader_node
          /\ rounds[2].state.clusterNodes = rounds[1].state.clusterNodes)
       => \A n \in FailedDeletes(rounds[1]) : hash_node_id(n) \in DeletesOf(rounds[2])

(***************************************************************************)
(* CockroachDB bootstrap                                                   *)
(***************************************************************************)
\* a leader apply round that sees no cockroachdb_cluster_initialized
C4_Case(r) ==
    /\ r.service = "cockroachdb"
    /\ r.cmd = "apply"
    /\ IsLeaderRound(r)
    /\ ~crdb_is_cluster_initialized(r.state.cockroachNodeProperties)

C4_Quorum(r) ==
    crdb_all_nodes_ready(r.state.clusterNodes, r.state.cockroachNodeProperties)

\* the round started the local instance and found it ready
C4_LocalReady(r) ==
    \E i \in CallsOf(r, "wait_for_cockroach_ready") : r.calls[i].ok

C5_BootstrapRetry ==
    (/\ Len(rounds) = 2
     /\ C4_Case(rounds[1])
     /\ \E i \in CallsOf(rounds[1], "init_cluster") : ~rounds[1].calls[i].ok
     /\ rounds[1].status = "postponed"
     /\ rounds[2].cmd = "apply"
     /\ UnchangedView(rounds[1], rounds[2]))
    => Called(rounds[2], "init_cluster")

(***************************************************************************)
(* Redis bootstrap                                                         *)
(***************************************************************************)
\* a call of the round failed
SomeCallFailed(r) == \E i \in 1..Len(r.calls) : ~r.calls[i].ok

\* the members that have redis_node_ready = "true" in the StateView of r
C3_ReadyMembers(r) ==
    {n \in r.state.clusterNodes :
        Prop(n, "redis_node_ready", "true") \in r.state.redisNodeProperties}

\* a leader apply round that sees fewer redis_node_ready than members
C3_Case(r) ==
    /\ r.service = "redis"
    /\ r.cmd = "apply"
    /\ IsLeaderRound(r)
    /\ Cardinality(C3_ReadyMembers(r)) < Cardinality(r.state.clusterNodes)

\* C3 (as amended): a leader apply round that sees fewer than N members
\* ready never calls create_redis_cluster and never publishes
\* redis_cluster_initialized; its status is postponed, or error when a local
\* step failed (configuration write, systemctl) or the leader has no
\* tunnel_ip; it is never completed.
C3_QuorumGate ==
    (rounds # << >> /\ C3_Case(Last(rounds))) =>
        LET r == Last(rounds)
        IN  /\ ~Called(r, "create_redis_cluster")
            /\ "redis_cluster_initialized" \notin DOMAIN r.node_properties
            /\ \/ r.status = "postponed"
               \/ /\ r.status = "error"
                  /\ \/ SomeCallFailed(r)
                     \/ Falsy(get_node_tunnel_ip(r.node, r.state.wgNodeProperties))

\* C3 as stated: the status of such a round is always postponed
C3_AsStated ==
    (rounds # << >> /\ C3_Case(Last(rounds))) =>
        LET r == Last(rounds)
        IN  /\ ~Called(r, "create_redis_cluster")
            /\ r.status = "postponed"
            /\ "redis_cluster_initialized" \notin DOMAIN r.node_properties

\* the leader reached the gate with one of two members ready and stopped
C3_Witness ==
    /\ rounds # << >>
    /\ C3_Case(Last(rounds))
    /\ Cardinality(Last(rounds).state.clusterNodes) >= 2
    /\ \E p \in Last(rounds).state.redisNodeProperties :
          p.name = "redis_node_ready" /\ p.value = "true"
    /\ Called(Last(rounds), "wait_for_redis_ready")
    /\ ~SomeCallFailed(Last(rounds))
    /\ Last(rounds).status = "postponed"
    /\ "redis_node_ready" \in DOMAIN Last(rounds).node_properties

\* every member's last apply round returned completed
RedisAllCompleted == \A n \in clusterNodes : sched.status[n] = "completed"

\* C8: with a fixed member set and leader, tunnel addresses present and
\* every command succeeding, apply rounds taken in sweeps over the members
\* eventually return completed on every member and keep doing so, and they
\* do so once three sweeps have been completed.
C8_Convergence ==
    /\ [](roundNo >= 3 => RedisAllCompleted)
    /\ <>[]RedisAllCompleted

C8_Witness ==
    /\ service = "redis"
    /\ sched.ran = {}
    /\ roundNo >= 2
    /\ clusterNodes = Nodes
    /\ managed.members = Nodes
    /\ RedisAllCompleted

(***************************************************************************)
(* Idempotence of apply                                                    *)
(***************************************************************************)
ConfigWrites == {"write_rke2_config", "create_systemd_service", "write_nginx_config"}

\* round r wrote a configuration file or unit
WritesConfig(r) == \E i \in 1..Len(r.calls) : r.calls[i].op \in ConfigWrites

\* round r issued systemctl with one of the given verbs
Systemctl(r, verbs) ==
    \E i \in CallsOf(r, "systemctl") : r.calls[i].arg \in verbs

\* r1 is a completed apply that left a fingerprint in carry-forward state,
\* and r2 is the next apply of the same node, with an unchanged StateView
C6_Case(r1, r2) ==
    /\ r1.service \in {"cockroachdb", "rke2", "openresty"}
    /\ r1.cmd = "apply"
    /\ r1.status = "completed"
    /\ \/ "install_hash" \in DOMAIN r1.local_state
       \/ "config_hash" \in DOMAIN r1.local_state
    /\ r2.cmd = "apply"
    /\ UnchangedView(r1, r2)

\* C6: after a completed apply that recorded the configuration hash, a
\* second apply with an unchanged StateView writes no configuration, issues
\* no systemctl start, restart or reload, and returns completed
\* (CockroachDB, RKE2, OpenResty).
C6_FingerprintIdempotence ==
    (Len(rounds) = 2 /\ C6_Case(rounds[1], rounds[2])) =>
        /\ ~WritesConfig(rounds[2])
        /\ ~Systemctl(rounds[2], {"start", "restart", "reload"})
        /\ rounds[2].status = "completed"

\* the first apply configured and started the service, the second did nothing
C6_Witness ==
    /\ Len(rounds) = 2
    /\ C6_Case(rounds[1], rounds[2])
    /\ WritesConfig(rounds[1])
    /\ Systemctl(rounds[1], {"start", "restart"})
    /\ rounds[2].status = "completed"
    /\ rounds[2].local_state = rounds[1].local_state


(***************************************************************************)
(* C7. Restart idempotence (NATS, Knot): when apply runs twice in a row on *)
(* a node with an unchanged StateView and the first run returned           *)
(* completed, the second run issues no systemctl restart of the managed    *)
(* service.                                                                *)
(***************************************************************************)
C7_Case(r1, r2) ==
    /\ r1.service \in {"nats", "knot"}
    /\ r1.cmd = "apply" /\ r1.status = "completed"
    /\ r2.cmd = "apply"
    /\ UnchangedView(r1, r2)

C7_RestartIdempotence ==
    (Len(rounds) = 2 /\ C7_Case(rounds[1], rounds[2]))
        => ~Systemctl(rounds[2], {"restart"})


(***************************************************************************)
(* C9. Single-member readiness: when clusterNodes contains only the local  *)
(* node, which is leader and has a tunnel_ip, and local service operations *)
(* succeed, apply reaches cluster formation and status completed without   *)
(* depending on any property published by another node.                    *)
(***************************************************************************)
\* the node property that records cluster formation
C9_FormedProperty(r) ==
    IF r.service = "redis" THEN Prop(r.node, "redis_cluster_initialized", "true")
    ELSE IF r.service = "mongodb" THEN Prop(r.node, "mongodb_rs_initialized", "true")
    ELSE Prop(r.node, "knot_cluster_initialized", "true")

\* an apply round of the leader as the only member, every command succeeding
C9_Case(r) ==
    /\ r.service \in {"redis", "mongodb", "knot"}
    /\ r.cmd = "apply"
    /\ r.state.clusterNodes = {r.node}
    /\ IsLeaderRound(r)
    /\ ~Falsy(get_node_tunnel_ip(r.node, r.state.wgNodeProperties))
    /\ ~SomeCallFailed(r)

\* the swarm-level inputs the service waits for are set
C9_Configured(r) ==
    r.service = "knot" => ~Falsy(r.view.swarm.globalId) /\ ~Falsy(r.view.swarm.base_domain)

C9_Formed(r) ==
    /\ r.status = "completed"
    /\ C9_FormedProperty(r) \in r.view_after.nodeProperties

\* C9 (as amended): once the swarm-level inputs are set, the second of two
\* consecutive successful apply rounds of a single-member leader is
\* completed with the cluster formed, whatever other nodes have published
C9_SingleMember ==
    (Len(rounds) = 2 /\ C9_Case(rounds[1]) /\ C9_Case(rounds[2])
        /\ C9_Configured(rounds[1]) /\ C9_Configured(rounds[2]))
        => C9_Formed(rounds[2])

\* C9 as stated, with no condition on the swarm-level inputs
C9_AsStated ==
    (Len(rounds) = 2 /\ C9_Case(rounds[1]) /\ C9_Case(rounds[2]))
        => C9_Formed(rounds[2])

\* the second successful round of a single-member leader forms the cluster
\* while no other node has published anything
C9_Witness ==
    /\ Len(rounds) = 2 /\ C9_Case(rounds[1]) /\ C9_Case(rounds[2])
    /\ C9_Configured(rounds[1]) /\ C9_Configured(rounds[2])
    /\ \A p \in rounds[2].view.nodeProperties : p.node_id = rounds[2].node
    /\ C9_FormedProperty(rounds[2]) \notin rounds[2].view.nodeProperties
    /\ C9_Formed(rounds[2])


(***************************************************************************)
(* C10. Destroy completeness: the node_properties returned by a completed  *)
(* destroy contain a null entry for every node-scoped property name that   *)
(* the service's apply or health published for this node, such as          *)
(* openresty_ready and openresty_dns_updated for OpenResty.                *)
(***************************************************************************)
\* the property names node r.node owns in the StateView that round r read
C10_Owned(r) == {p.name : p \in {q \in r.view.nodeProperties : q.node_id = r.node}}

C10_DestroyCompleteness ==
    \A i \in 1..Len(rounds) :
        (rounds[i].cmd = "destroy" /\ rounds[i].status = "completed")
            => \A k \in C10_Owned(rounds[i]) :
                   /\ k \in DOMAIN rounds[i].node_properties
                   /\ rounds[i].node_properties[k] = None


(***************************************************************************)
(* C11. Destroy resets carry-forward state: every destroy round returns an *)
(* empty local_state, whatever the input local_state and whether the       *)
(* status is completed or error.                                           *)
(***************************************************************************)
C11_DestroyResets ==
    \A i \in 1..Len(rounds) :
        rounds[i].cmd = "destroy" => rounds[i].local_state = EmptyDict


(***************************************************************************)
(* C12. Readiness gate blocks mutation: if any intended member lacks a     *)
(* non-empty tunnel_ip property in the StateView, apply returns postponed  *)
(* with the input local_state unchanged, publishes no properties, and      *)
(* performs no config write, service start/restart, cluster formation or   *)
(* member removal.                                                         *)
(***************************************************************************)
\* the intended members without a non-empty tunnel_ip in the StateView of r
C12_Missing(r) ==
    {n \in r.state.clusterNodes : Falsy(get_node_tunnel_ip(n, r.state.wgNodeProperties))}

C12_Case(r) ==
    /\ r.service \in {"cockroachdb", "rke2", "redis"}
    /\ r.cmd = "apply"
    /\ C12_Missing(r) # {}

C12_ReadinessGate ==
    \A i \in 1..Len(rounds) :
        C12_Case(rounds[i]) =>
            /\ rounds[i].status = "postponed"
            /\ rounds[i].local_state = rounds[i].in_local_state
            /\ rounds[i].node_properties = EmptyDict
            /\ rounds[i].cluster_properties = EmptyDict
            /\ rounds[i].calls = << >>
            /\ rounds[i].view_after = rounds[i].view

\* the gate stops a node that has its own tunnel_ip and carries state from
\* an earlier round, because another member has none
C12_Witness ==
    /\ rounds # << >>
    /\ C12_Case(Last(rounds))
    /\ Last(rounds).node \notin C12_Missing(Last(rounds))
    /\ Last(rounds).in_local_state # EmptyDict
    /\ Last(rounds).status = "postponed"


(***************************************************************************)
(* C13. RKE2 membership observation failure: when the leader detects       *)
(* disappeared members but get_k8s_nodes returns no nodes, the round calls *)
(* no cordon_node, drain_node or delete_node and returns status postponed. *)
(***************************************************************************)
\* a leader apply round in which members have disappeared, the query of the
\* Kubernetes nodes came back empty and no other command failed
C13_Case(r) ==
    /\ r.service = "rke2"
    /\ r.cmd = "apply"
    /\ IsLeaderRound(r)
    /\ known_node_ids(r.in_local_state) \ r.state.clusterNodes # {}
    /\ \E i \in CallsOf(r, "get_k8s_nodes") : ~r.calls[i].ok
    /\ \A i \in 1..Len(r.calls) : ~r.calls[i].ok => r.calls[i].op = "get_k8s_nodes"

C13_ObservationFailure ==
    \A i \in 1..Len(rounds) :
        C13_Case(rounds[i]) =>
            /\ ~Called(rounds[i], "cordon_node")
            /\ ~Called(rounds[i], "drain_node")
            /\ ~Called(rounds[i], "delete_node")
            /\ rounds[i].status = "postponed"


(***************************************************************************)
(* C14. Cluster-initialized publication: the cluster-initialized property  *)
(* (cockroachdb_cluster_initialized, redis_cluster_initialized,            *)
(* mongodb_rs_initialized, k8s_bootstrap_done) is published with value     *)
(* "true" only by a round running on the node that the round's StateView   *)
(* names as leader, and only after the cluster-formation step of that same *)
(* round succeeded.                                                        *)
(***************************************************************************)
InitializedName(svc) ==
    IF svc = "cockroachdb" THEN "cockroachdb_cluster_initialized"
    ELSE IF svc = "redis" THEN "redis_cluster_initialized"
    ELSE IF svc = "mongodb" THEN "mongodb_rs_initialized"
    ELSE IF svc = "rke2" THEN "k8s_bootstrap_done"
    ELSE IF svc = "knot" THEN "knot_cluster_initialized"
    ELSE "nats_cluster_initialized"

\* the command whose success forms the cluster
FormationCall(svc) ==
    IF svc = "cockroachdb" THEN "init_cluster"
    ELSE IF svc = "redis" THEN "create_redis_cluster"
    ELSE IF svc = "mongodb" THEN "rs_initiate"
    ELSE IF svc = "rke2" THEN "wait_for_api_ready"
    ELSE "register_cluster_nodes_in_powerdns"

\* round r publishes the cluster-initialized property with value "true"
PublishesInitialized(r) ==
    /\ InitializedName(r.service) \in DOMAIN r.node_properties
    /\ r.node_properties[InitializedName(r.service)] = "true"

\* the cluster-formation command of round r ran and succeeded
Formed(r) == \E i \in CallsOf(r, FormationCall(r.service)) : r.calls[i].ok

C14_Services == {"cockroachdb", "redis", "mongodb", "rke2"}

C14_InitializedPublication ==
    \A i \in 1..Len(rounds) :
        (rounds[i].service \in C14_Services /\ PublishesInitialized(rounds[i]))
            => IsLeaderRound(rounds[i]) /\ Formed(rounds[i])

\* a node that became leader after the start publishes the property in the
\* round in which it formed the cluster
C14_Witness ==
    /\ rounds # << >>
    /\ Last(rounds).service \in C14_Services
    /\ PublishesInitialized(Last(rounds))
    /\ Last(rounds).node # "A"
    /\ Formed(Last(rounds))


(***************************************************************************)
(* C15. Initialized is terminal: once the cluster-initialized property has *)
(* been published as "true", no later round of any command on any node     *)
(* makes a subsequent StateView show the cluster as not initialized, so    *)
(* the leader never re-enters bootstrap.                                   *)
(***************************************************************************)
\* the view shows the cluster of service svc as initialized
ShowsInitialized(svc, view) ==
    \E p \in view.nodeProperties :
        p.name = InitializedName(svc) /\ p.value = "true"

C15_Services == {"cockroachdb", "redis", "mongodb", "rke2"}

C15_InitializedTerminal ==
    \A i \in 1..Len(rounds) :
        (rounds[i].service \in C15_Services
            /\ ShowsInitialized(rounds[i].service, rounds[i].view))
            => ShowsInitialized(rounds[i].service, rounds[i].view_after)


(***************************************************************************)
(* C16. Bootstrap failure policy: when a step of the leader's cluster      *)
(* bootstrap fails in an apply round (init_cluster, create_redis_cluster,  *)
(* rs_initiate, PowerDNS registration, Knot TSIG key generation), the      *)
(* round returns postponed with a non-empty message and never error.       *)
(***************************************************************************)
BootstrapSteps ==
    {"init_cluster", "create_redis_cluster", "rs_initiate",
     "register_cluster_nodes_in_powerdns", "generate_tsig_key"}

\* a bootstrap step of round r ran and failed
BootstrapStepFailed(r) ==
    \E i \in 1..Len(r.calls) : r.calls[i].op \in BootstrapSteps /\ ~r.calls[i].ok

C16_BootstrapFailurePolicy ==
    \A i \in 1..Len(rounds) :
        (rounds[i].cmd = "apply" /\ IsLeaderRound(rounds[i])
            /\ BootstrapStepFailed(rounds[i]))
            => (rounds[i].status = "postponed" /\ rounds[i].error_message # None)


(***************************************************************************)
(* C17. Carry-forward preservation: every apply, health and init round     *)
(* that returns error or postponed returns a local_state that holds at     *)
(* least the entries of the input local_state; it is never null.           *)
(***************************************************************************)
\* out holds every entry of the input local_state in
CarriesForward(in, out) ==
    /\ out # NullState
    /\ \A k \in DOMAIN OrEmpty(in) : k \in DOMAIN out /\ out[k] = OrEmpty(in)[k]

C17_CarryForwardPreservation ==
    \A i \in 1..Len(rounds) :
        (rounds[i].cmd \in {"apply", "health", "init"}
            /\ rounds[i].status \in {"error", "postponed"})
            => CarriesForward(rounds[i].in_local_state, rounds[i].local_state)


(***************************************************************************)
(* C18. RKE2 reconciler gating: stale-member removal (remove_stale_nodes)  *)
(* runs only in rounds where the local node is the leader named by the     *)
(* StateView and the cluster bootstrap has completed (k8s_bootstrap_done   *)
(* published); never on a non-leader, never before bootstrap is done.      *)
(***************************************************************************)
C18_ReconcilerGating ==
    \A i \in 1..Len(rounds) :
        (rounds[i].service = "rke2" /\ Called(rounds[i], "remove_stale_nodes"))
            => /\ IsLeaderRound(rounds[i])
               /\ ShowsInitialized("rke2", rounds[i].view)

\* the reconciler runs only on the leader named by the StateView
C18_LeaderOnly ==
    \A i \in 1..Len(rounds) :
        (rounds[i].service = "rke2" /\ Called(rounds[i], "remove_stale_nodes"))
            => IsLeaderRound(rounds[i])


(***************************************************************************)
(* C19. RKE2 removal step order: for each disappeared member still         *)
(* registered in Kubernetes, the round attempts cordon_node, then          *)
(* drain_node, then delete_node; delete_node is attempted even when        *)
(* cordon_node or drain_node fails; a cordon or drain failure never        *)
(* changes the round's status.                                             *)
(***************************************************************************)
\* the disappeared members that the Kubernetes listing of round r names
C19_Registered(r) ==
    IF \E i \in CallsOf(r, "get_k8s_nodes") : r.calls[i].ok
    THEN {n \in known_node_ids(r.in_local_state) \ r.state.clusterNodes :
            hash_node_id(n) \in r.in_managed.k8s_nodes}
    ELSE {}

\* the three steps for node name m are in the log at i, i+1, i+2
C19_StepsAt(r, i, m) ==
    /\ i + 2 <= Len(r.calls)
    /\ r.calls[i].op = "cordon_node" /\ r.calls[i].arg = m
    /\ r.calls[i + 1].op = "drain_node" /\ r.calls[i + 1].arg = m
    /\ r.calls[i + 2].op = "delete_node" /\ r.calls[i + 2].arg = m

\* a cordon_node or drain_node of round r failed, and nothing else did
C19_OnlyBestEffortFailed(r) ==
    /\ SomeCallFailed(r)
    /\ \A i \in 1..Len(r.calls) :
          ~r.calls[i].ok => r.calls[i].op \in {"cordon_node", "drain_node"}

C19_RemovalStepOrder ==
    \A j \in 1..Len(rounds) :
        LET r == rounds[j]
        IN  (r.service = "rke2" /\ Called(r, "remove_stale_nodes")) =>
              /\ \A n \in C19_Registered(r) :
                    \E i \in 1..Len(r.calls) : C19_StepsAt(r, i, hash_node_id(n))
              /\ \A i \in CallsOf(r, "cordon_node") : C19_StepsAt(r, i, r.calls[i].arg)
              /\ \A i \in CallsOf(r, "delete_node") :
                    i > 2 /\ C19_StepsAt(r, i - 2, r.calls[i].arg)
              /\ \A i \in CallsOf(r, "drain_node") :
                    i > 1 /\ C19_StepsAt(r, i - 1, r.calls[i].arg)
              /\ C19_OnlyBestEffortFailed(r) => r.status = "completed"

\* a round in which both the cordon and the drain of a disappeared member
\* failed and the member was deleted all the same
C19_Witness ==
    /\ rounds # << >>
    /\ Last(rounds).service = "rke2"
    /\ Last(rounds).status = "completed"
    /\ \E i \in CallsOf(Last(rounds), "cordon_node") :
          /\ C19_StepsAt(Last(rounds), i, Last(rounds).calls[i].arg)
          /\ ~Last(rounds).calls[i].ok
          /\ ~Last(rounds).calls[i + 1].ok
          /\ Last(rounds).calls[i + 2].ok


(***************************************************************************)
(* C20. Health does not mutate bootstrap state: for every service, a       *)
(* health round issues no cluster-formation call and publishes no          *)
(* cluster-initialized property, whatever the StateView and local_state.   *)
(***************************************************************************)
\* the commands by which an apply round forms the cluster of a service
FormationCalls == BootstrapSteps \cup {"write_rke2_config", "wait_for_api_ready"}

C20_HealthFrame ==
    \A i \in 1..Len(rounds) :
        rounds[i].cmd = "health" =>
            /\ \A j \in 1..Len(rounds[i].calls) :
                  rounds[i].calls[j].op \notin FormationCalls
            /\ InitializedName(rounds[i].service) \notin DOMAIN rounds[i].node_properties
            /\ rounds[i].cluster_properties = EmptyDict
            /\ ShowsInitialized(rounds[i].service, rounds[i].view_after)
                  <=> ShowsInitialized(rounds[i].service, rounds[i].view)

\* a health round that completes on the leader while the StateView shows
\* the cluster as not initialized, where an apply round would bootstrap
C20_Witness ==
    /\ rounds # << >>
    /\ Last(rounds).cmd = "health"
    /\ IsLeaderRound(Last(rounds))
    /\ ~ShowsInitialized(Last(rounds).service, Last(rounds).view)
    /\ Last(rounds).status = "completed"


(***************************************************************************)
(* C21. Service start failure is retryable: when systemctl start/restart   *)
(* of the managed service fails during apply, the round returns postponed  *)
(* (not error), and the next apply round attempts the same start again.    *)
(***************************************************************************)
\* the systemctl start or restart of round r failed
StartFailed(r) ==
    \E i \in CallsOf(r, "systemctl") :
        r.calls[i].arg \in {"start", "restart"} /\ ~r.calls[i].ok

C21_Services == {"cockroachdb", "redis", "rke2"}

C21_StartFailureRetryable ==
    /\ \A i \in 1..Len(rounds) :
          (rounds[i].service \in C21_Services /\ rounds[i].cmd = "apply"
             /\ StartFailed(rounds[i]))
          => rounds[i].status = "postponed"
    /\ (Len(rounds) = 2 /\ rounds[1].service \in C21_Services
          /\ rounds[1].cmd = "apply" /\ rounds[2].cmd = "apply"
          /\ StartFailed(rounds[1]) /\ UnchangedView(rounds[1], rounds[2]))
       => Systemctl(rounds[2], {"start", "restart"})


(***************************************************************************)
(* C22. PKI authority structural failure: when pki_authority_initialized   *)
(* is "true" in the StateView but a required authority property is missing *)
(* or empty, apply returns error and neither starts, stops nor restarts    *)
(* the container.                                                          *)
(***************************************************************************)
\* the required authority properties that the StateView of round r lacks
C22_Missing(r) ==
    {name \in AuthorityPropertyNames : Falsy(authority_config(r.state, name))}

\* an apply round that has its tunnel address and sees the initialized flag
C22_Case(r) ==
    /\ r.service = "pki-authority"
    /\ r.cmd = "apply"
    /\ ~Falsy(get_node_tunnel_ip(r.node, r.state.wgNodeProperties))
    /\ authority_config(r.state, "pki_authority_initialized") = "true"

C22_Refused(r) ==
    /\ r.status = "error"
    /\ ~Called(r, "container.start")
    /\ ~Called(r, "container.stop")

\* the properties that a swarm-init node obtains again from its external
\* sources when the StateView lacks them
C22_Recoverable ==
    {"pki_authority_pki_domain", "pki_authority_network_key_hash",
     "pki_authority_network_type"}

C23_Absent(r, name) ==
    ~\E p \in r.state.clusterProperties : p.name = name /\ ~Falsy(p.value)

\* an apply round that passes the checks made before the TSIG key is looked
\* up, sees the initialized flag and lacks a part of the key
C23_Case(r) ==
    /\ r.service = "knot"
    /\ r.cmd = "apply"
    /\ ~Falsy(r.state.globalId) /\ ~Falsy(r.state.swarmSecrets.base_domain)
    /\ check_all_nodes_have_wg(r.state.clusterNodes, r.state.wgNodeProperties)
    /\ ~Falsy(get_node_tunnel_ip(r.node, r.state.wgNodeProperties))
    /\ knot_is_cluster_initialized(r.state.knotNodeProperties)
    /\ C23_Absent(r, "knot_tsig_key_name") \/ C23_Absent(r, "knot_tsig_key_secret")

C23_StructuralFailure ==
    \A i \in 1..Len(rounds) : C23_Case(rounds[i]) => rounds[i].status = "error"


(***************************************************************************)
(* C24. Leader-only operations on a non-leader: a round on a node that its *)
(* StateView does not name as leader never calls cluster formation         *)
(* (init_cluster, create_redis_cluster, rs_initiate, PowerDNS              *)
(* registration) or member removal, and never returns error solely because *)
(* it is not the leader.                                                   *)
(***************************************************************************)
LeaderOnlyCalls ==
    {"init_cluster", "create_redis_cluster", "rs_initiate",
     "register_cluster_nodes_in_powerdns", "remove_stale_nodes",
     "cordon_node", "drain_node", "delete_node"}

\* the reasons a round gives for waiting on the leader
WaitingForLeader ==
    {"Waiting for leader node to initialize cluster",
     "Waiting for leader node to initialize replica set",
     "Waiting for leader node to mark cluster initialized",
     "Waiting for TSIG key to be generated by leader",
     "Waiting for leader node to have WireGuard tunnel IP",
     "Waiting for bootstrap node to complete initialization",
     "Waiting for bootstrap node to become ready",
     "Bootstrap node has no WireGuard tunnel IP yet"}

C24_NonLeaderSkips ==
    \A i \in 1..Len(rounds) :
        ~IsLeaderRound(rounds[i]) =>
            /\ \A j \in 1..Len(rounds[i].calls) :
                  rounds[i].calls[j].op \notin LeaderOnlyCalls
            /\ rounds[i].error_message \in WaitingForLeader
                  => rounds[i].status = "postponed"
            /\ rounds[i].status = "error"
                  => \/ SomeCallFailed(rounds[i])
                     \/ rounds[i].cmd # "apply"
                     \/ Falsy(get_node_tunnel_ip(rounds[i].node,
                                                 rounds[i].state.wgNodeProperties))

\* the node that led at the start applies after the leadership has moved
\* away and the cluster is not formed: it waits for the new leader
C24_Witness ==
    /\ rounds # << >>
    /\ Last(rounds).node = "A"
    /\ Last(rounds).state.cluster.leader_node # "A"
    /\ Last(rounds).cmd = "apply"
    /\ ~ShowsInitialized(Last(rounds).service, Last(rounds).view)
    /\ Last(rounds).status = "postponed"
    /\ Last(rounds).error_message \in WaitingForLeader


(***************************************************************************)
(* C25. Every round result with status postponed or error, from any        *)
(* command of any service, carries a non-empty error_message.              *)
(***************************************************************************)
C25_ReasonGiven ==
    \A i \in 1..Len(rounds) :
        rounds[i].status \in {"postponed", "error"} => ~Falsy(rounds[i].error_message)


(***************************************************************************)
(* C26. RKE2 recorded-set refresh: when no member has disappeared, a       *)
(* leader round that returns completed calls no cordon_node, drain_node or *)
(* delete_node and returns known_node_ids equal to the ids of the current  *)
(* StateView's clusterNodes.                                               *)
(***************************************************************************)
\* a completed leader round of apply or health with nothing disappeared
C26_Case(r) ==
    /\ r.service = "rke2"
    /\ r.cmd \in {"apply", "health"}
    /\ IsLeaderRound(r)
    /\ r.status = "completed"
    /\ known_node_ids(r.in_local_state) \ r.state.clusterNodes = {}

C26_RecordedSetRefresh ==
    \A i \in 1..Len(rounds) :
        C26_Case(rounds[i]) =>
            /\ ~Called(rounds[i], "cordon_node")
            /\ ~Called(rounds[i], "drain_node")
            /\ ~Called(rounds[i], "delete_node")
            /\ known_node_ids(rounds[i].local_state) = rounds[i].state.clusterNodes

\* the leader's health round records the members after one of them left
\* before any had been recorded
C26_Witness ==
    /\ rounds # << >>
    /\ C26_Case(Last(rounds))
    /\ Last(rounds).cmd = "health"
    /\ known_node_ids(Last(rounds).in_local_state) # Last(rounds).state.clusterNodes
    /\ Last(rounds).state.clusterNodes # Nodes
    /\ known_node_ids(Last(rounds).local_state) = Last(rounds).state.clusterNodes


(***************************************************************************)
(* C27. Empty member list: with an empty clusterNodes list the readiness   *)
(* gate check_all_nodes_have_wg evaluates to ready, and apply does not     *)
(* return postponed merely because the member count is zero.               *)
(***************************************************************************)
\* an apply round of CockroachDB or Redis whose StateView has no members
C27_Case(r) ==
    /\ r.service \in {"cockroachdb", "redis"}
    /\ r.cmd = "apply"
    /\ r.state.clusterNodes = {}

RequiresOneNode ==
    {"CockroachDB cluster requires at least 1 node", "Redis cluster requires at least 1 node"}

\* C27: an apply round with an empty member list passes the readiness gate
\* and is not postponed for the member count
C27_EmptyMemberList ==
    \A i \in 1..Len(rounds) :
        C27_Case(rounds[i]) =>
            /\ rounds[i].error_message
                  # "Waiting for WireGuard to be configured on all nodes"
            /\ ~(rounds[i].status = "postponed"
                    /\ rounds[i].error_message \in RequiresOneNode)


(***************************************************************************)
(* C28. PKI property-generation wait is bounded: the wait for the property *)
(* files performs at most timeout/interval polling iterations, and if not  *)
(* every property file has been collected by then the round returns        *)
(* postponed and pki_authority_initialized is not set or published.        *)
(***************************************************************************)
\* the polling iterations of a round, and whether the last of them
\* collected every property file
C28_Polls(r) == Cardinality(CallsOf(r, "read_property_from_fs"))

C28_Collected(r) ==
    \E i \in CallsOf(r, "read_property_from_fs") : r.calls[i].ok

C28_PublishesInitialized(r) ==
    /\ r.cluster_properties # EmptyDict
    /\ "pki_authority_initialized" \in DOMAIN r.cluster_properties

C28_WaitBounded ==
    \A i \in 1..Len(rounds) :
        (rounds[i].service = "pki-authority" /\ rounds[i].cmd = "apply") =>
            /\ C28_Polls(rounds[i]) * PkiWaitInterval <= PkiWaitTimeout
            /\ (C28_Polls(rounds[i]) > 0 /\ ~C28_Collected(rounds[i])) =>
                  /\ C28_Polls(rounds[i]) * PkiWaitInterval = PkiWaitTimeout
                  /\ rounds[i].status = "postponed"
                  /\ rounds[i].error_message
                        = "Timeout waiting for tee-pki to generate property files"
                  /\ ~C28_PublishesInitialized(rounds[i])
                  /\ ~\E p \in rounds[i].view_after.clusterProperties :
                          p.name = "pki_authority_initialized" /\ p.value = "true"

\* a swarm-init apply round that started the container, polled until the
\* timeout without collecting the files and was postponed
C28_Witness ==
    /\ rounds # << >>
    /\ Last(rounds).service = "pki-authority"
    /\ Last(rounds).cmd = "apply"
    /\ Called(Last(rounds), "container.start")
    /\ C28_Polls(Last(rounds)) * PkiWaitInterval = PkiWaitTimeout
    /\ ~C28_Collected(Last(rounds))
    /\ Last(rounds).status = "postponed"


(***************************************************************************)
(* C29. Leadership is never cached: the leader decision of each round      *)
(* depends only on cluster.leader_node in that round's StateView; the      *)
(* is_leader and is_bootstrap values kept in the carry-forward state never *)
(* influence a later round's actions or result, so two rounds that differ  *)
(* only in those stored values behave identically.                         *)
(***************************************************************************)
StoredLeadership == {"is_leader", "is_bootstrap"}

\* the carry-forward state with the stored leadership values set to b
C29_Stored(ls, b) == Update(ls, [is_leader |-> b, is_bootstrap |-> b])

\* the carry-forward state apart from the stored leadership values
C29_Rest(ls) == [k \in DOMAIN ls \ StoredLeadership |-> ls[k]]

\* two handler runs issue the same commands, have the same effects and
\* return the same result; the returned carry-forward states agree on
\* everything but the stored values the runs were given
C29_Same(r1, r2) ==
    /\ r1.calls = r2.calls
    /\ r1.host = r2.host
    /\ r1.managed = r2.managed
    /\ r1.out.status = r2.out.status
    /\ r1.out.error_message = r2.out.error_message
    /\ r1.out.node_properties = r2.out.node_properties
    /\ r1.out.cluster_properties = r2.out.cluster_properties
    /\ C29_Rest(r1.out.local_state) = C29_Rest(r2.out.local_state)

\* in every reachable state, whichever node runs next and whatever its
\* commands do, the round is the same for any stored is_leader/is_bootstrap
C29_LeadershipNotCached ==
    \A n \in Nodes : \A b \in BOOLEAN :
        /\ service = "cockroachdb" =>
              /\ \A o \in CrdbOutcomes :
                    C29_Same(crdb_handle_apply(n, crdb_state_json, local_state[n],
                                               host[n], managed, o),
                             crdb_handle_apply(n, crdb_state_json,
                                               C29_Stored(local_state[n], b),
                                               host[n], managed, o))
              /\ \A o \in [fail : {"none", "is_active", "status"}] :
                    C29_Same(crdb_handle_health(n, crdb_state_json, local_state[n],
                                                host[n], managed, o),
                             crdb_handle_health(n, crdb_state_json,
                                                C29_Stored(local_state[n], b),
                                                host[n], managed, o))
        /\ service = "rke2" =>
              /\ \A o \in Rke2Outcomes(n) :
                    C29_Same(rke2_handle_apply(n, rke2_state_json, local_state[n],
                                               host[n], managed, o),
                             rke2_handle_apply(n, rke2_state_json,
                                               C29_Stored(local_state[n], b),
                                               host[n], managed, o))
              /\ \A o \in Rke2HealthOutcomes(n) :
                    C29_Same(rke2_handle_health(n, rke2_state_json, local_state[n],
                                                host[n], managed, o),
                             rke2_handle_health(n, rke2_state_json,
                                                C29_Stored(local_state[n], b),
                                                host[n], managed, o))

\* a round ran on a node that is no longer the leader while its
\* carry-forward state still says it is, and it did nothing only the
\* leader does
C29_Witness ==
    /\ rounds # << >>
    /\ Last(rounds).service \in {"cockroachdb", "rke2"}
    /\ Last(rounds).cmd = "apply"
    /\ ~IsLeaderRound(Last(rounds))
    /\ \/ Truthy(Last(rounds).in_local_state, "is_leader")
       \/ Truthy(Last(rounds).in_local_state, "is_bootstrap")
    /\ Last(rounds).status = "completed"
    /\ ~Called(Last(rounds), "init_cluster")
    /\ ~Called(Last(rounds), "remove_stale_nodes")


(***************************************************************************)
(* C30. RKE2 observation failure keeps the recorded set: when the leader   *)
(* detects disappeared members but cannot list the Kubernetes nodes, the   *)
(* disappeared ids remain in the known_node_ids returned by the round, so  *)
(* their removal is attempted in a later round once the listing succeeds.  *)
(***************************************************************************)
\* a leader round in which members have disappeared and the query of the
\* Kubernetes nodes came back empty
C30_Case(r) ==
    /\ r.service = "rke2"
    /\ r.cmd \in {"apply", "health"}
    /\ IsLeaderRound(r)
    /\ known_node_ids(r.in_local_state) \ r.state.clusterNodes # {}
    /\ \E i \in CallsOf(r, "get_k8s_nodes") : ~r.calls[i].ok

C30_Disappeared(r) == known_node_ids(r.in_local_state) \ r.state.clusterNodes

C30_RecordedSetKept ==
    /\ \A i \in 1..Len(rounds) :
          C30_Case(rounds[i]) =>
              C30_Disappeared(rounds[i]) \subseteq known_node_ids(rounds[i].local_state)
    /\ (Len(rounds) = 2
          /\ C30_Case(rounds[1])
          /\ rounds[2].cmd \in {"apply", "health"}
          /\ IsLeaderRound(rounds[2])
          /\ rounds[2].state.clusterNodes = rounds[1].state.clusterNodes
          /\ \E j \in CallsOf(rounds[2], "get_k8s_nodes") : rounds[2].calls[j].ok)
       => \A n \in C30_Disappeared(rounds[1]) :
             hash_node_id(n) \in rounds[2].in_managed.k8s_nodes
                => hash_node_id(n) \in DeletesOf(rounds[2])


(***************************************************************************)
(* C31. Cross-node bootstrap ordering: under any interleaving of apply     *)
(* rounds across nodes, with a fixed leader, a non-leader's apply returns  *)
(* completed only if some leader round has previously published the        *)
(* cluster-initialized property.                                           *)
(***************************************************************************)
\* checked on the runs whose every round so far is still recorded (the
\* properties start empty, so nothing was published before the record): a
\* completed non-leader apply is preceded by a leader round that published
\* the property
C31_CrossNodeOrdering ==
    \A i \in 1..Len(rounds) :
        (/\ roundNo = Len(rounds)
         /\ rounds[i].service \in {"cockroachdb", "redis"}
         /\ rounds[i].cmd = "apply"
         /\ ~IsLeaderRound(rounds[i])
         /\ rounds[i].status = "completed")
        => \E j \in 1..(i - 1) :
              IsLeaderRound(rounds[j]) /\ PublishesInitialized(rounds[j])


(***************************************************************************)
(* C32. Initialized is published atomically with the result: a             *)
(* cluster-initialized property with value "true" appears only in the      *)
(* output of a round whose status is completed, never in a postponed or    *)
(* error output.                                                           *)
(***************************************************************************)
\* C32 as stated
C32_AsStated ==
    \A i \in 1..Len(rounds) :
        PublishesInitialized(rounds[i]) => rounds[i].status = "completed"

\* the Knot leader registered the delegation (or had no PowerDNS
\* credentials) and then failed to create the zone
C32_ZoneFailed(r) ==
    /\ r.service = "knot"
    /\ r.cmd = "apply"
    /\ IsLeaderRound(r)
    /\ r.status = "postponed"
    /\ r.error_message = "Failed to create zone in Knot"
    /\ \A k \in CallsOf(r, "register_cluster_nodes_in_powerdns") : r.calls[k].ok
    /\ \E k \in CallsOf(r, "create_zone_in_knot") : ~r.calls[k].ok

\* C32 (as amended): the property appears with value "true" only in the
\* output of a completed round, or of a Knot leader apply that is postponed
\* because create_zone_in_knot failed after the registration; never in an
\* error output, and in no other postponed output
C32_InitializedWithResult ==
    \A i \in 1..Len(rounds) :
        PublishesInitialized(rounds[i]) =>
            \/ rounds[i].status = "completed"
            \/ C32_ZoneFailed(rounds[i])

\* a postponed Knot round that publishes knot_cluster_initialized
C32_Witness ==
    /\ rounds # << >>
    /\ PublishesInitialized(Last(rounds))
    /\ C32_ZoneFailed(Last(rounds))
    /\ Called(Last(rounds), "register_cluster_nodes_in_powerdns")


(***************************************************************************)
(* C33. Locally-ready publication: a locally-ready property                *)
(* (nats_node_ready, redis_node_ready, mongodb_node_ready, knot_node_ready,*)
(* cockroachdb_node_ready) is published with value "true" only by a round  *)
(* in which the local service's readiness probe succeeded.                 *)
(***************************************************************************)
ReadyNames ==
    {"nats_node_ready", "redis_node_ready", "mongodb_node_ready", "knot_node_ready",
     "cockroachdb_node_ready"}

\* the readiness probes the handlers wait on after starting the service
ReadinessProbes ==
    {"wait_for_tcp", "wait_for_redis_ready", "wait_for_mongo_ready", "wait_for_knot_ready",
     "wait_for_cockroach_ready"}

C33_PublishesReady(r) ==
    \E name \in ReadyNames \cap DOMAIN r.node_properties : r.node_properties[name] = "true"

\* a round that publishes the property has no failed readiness probe
C33_ReadyPublication ==
    \A i \in 1..Len(rounds) :
        C33_PublishesReady(rounds[i]) =>
            \A k \in 1..Len(rounds[i].calls) :
                rounds[i].calls[k].op \in ReadinessProbes => rounds[i].calls[k].ok


(***************************************************************************)
(* C34. OpenResty gateway DNS retry: if the leader's apply fails           *)
(* update_gateway_dns_records and returns postponed, the next leader apply *)
(* with an unchanged StateView attempts the DNS update again, so that      *)
(* openresty_dns_updated is eventually published once the update succeeds. *)
(***************************************************************************)
\* a leader apply round postponed by a failed update of the gateway records
C34_DnsFailed(r) ==
    /\ r.service = "openresty"
    /\ r.cmd = "apply"
    /\ IsLeaderRound(r)
    /\ r.status = "postponed"
    /\ \E k \in CallsOf(r, "update_gateway_dns_records") : ~r.calls[k].ok

\* the next apply of the leader with the same StateView calls
\* update_gateway_dns_records again, and publishes openresty_dns_updated
\* when the call succeeds
C34_DnsRetry ==
    (/\ Len(rounds) = 2
     /\ C34_DnsFailed(rounds[1])
     /\ rounds[2].cmd = "apply"
     /\ IsLeaderRound(rounds[2])
     /\ UnchangedView(rounds[1], rounds[2]))
    => /\ Called(rounds[2], "update_gateway_dns_records")
       /\ (\A k \in CallsOf(rounds[2], "update_gateway_dns_records") : rounds[2].calls[k].ok)
             => /\ "openresty_dns_updated" \in DOMAIN rounds[2].node_properties
                /\ rounds[2].node_properties["openresty_dns_updated"] = "true"


(***************************************************************************)
(* C35. RKE2 join ordering: a non-leader's apply writes no configuration   *)
(* and starts no service until its StateView shows k8s_bootstrap_done =    *)
(* "true" and k8s_node_ready = "true" owned by the current leader; until   *)
(* then it returns postponed with local_state unchanged.                   *)
(***************************************************************************)
C35_NonLeaderApply(r) ==
    r.service = "rke2" /\ r.cmd = "apply" /\ ~IsLeaderRound(r)

\* the StateView of r shows the property with value "true", owned by node n
C35_Shows(r, n, name) == Prop(n, name, "true") \in r.state.rke2NodeProperties

\* the round stays out of the cluster
C35_Waits(r) ==
    /\ ~Called(r, "write_rke2_config")
    /\ ~Called(r, "systemctl")
    /\ r.status = "postponed"
    /\ r.local_state = r.in_local_state

\* C35 as stated: both properties have to be owned by the current leader
C35_AsStated ==
    \A i \in 1..Len(rounds) :
        (/\ C35_NonLeaderApply(rounds[i])
         /\ ~(/\ C35_Shows(rounds[i], rounds[i].state.cluster.leader_node, "k8s_bootstrap_done")
              /\ C35_Shows(rounds[i], rounds[i].state.cluster.leader_node, "k8s_node_ready")))
        => C35_Waits(rounds[i])

\* C35 (as amended): k8s_bootstrap_done may be owned by any node, and
\* k8s_node_ready has to be owned by the current leader
C35_JoinOrdering ==
    \A i \in 1..Len(rounds) :
        (/\ C35_NonLeaderApply(rounds[i])
         /\ ~(/\ \E n \in Nodes : C35_Shows(rounds[i], n, "k8s_bootstrap_done")
              /\ C35_Shows(rounds[i], rounds[i].state.cluster.leader_node, "k8s_node_ready")))
        => C35_Waits(rounds[i])

\* a non-leader waits although the bootstrap is done and some node is
\* ready: the current leader has not published k8s_node_ready
C35_Witness ==
    /\ rounds # << >>
    /\ C35_NonLeaderApply(Last(rounds))
    /\ \E n \in Nodes : C35_Shows(Last(rounds), n, "k8s_bootstrap_done")
    /\ \E n \in Nodes : C35_Shows(Last(rounds), n, "k8s_node_ready")
    /\ ~C35_Shows(Last(rounds), Last(rounds).state.cluster.leader_node, "k8s_node_ready")
    /\ C35_Waits(Last(rounds))


(***************************************************************************)
(* C36. Leader change between rounds: if the StateView of one round names  *)
(* node X as leader and the StateView of the next round names node Y, no   *)
(* round returns error because of the change, and in the later round Y     *)
(* performs the leader-only operations (including stale-member removal     *)
(* from its own known_node_ids) while X performs none.                     *)
(***************************************************************************)
\* two consecutive rounds of one node, the second under another leader
C36_Case ==
    /\ Len(rounds) = 2
    /\ rounds[1].state.cluster.leader_node # rounds[2].state.cluster.leader_node
    /\ rounds[2].cmd \in {"apply", "health"}

\* the members Y has recorded itself and no longer sees
C36_OwnDisappeared(r) == known_node_ids(r.in_local_state) \ r.state.clusterNodes

C36_LeaderChange ==
    C36_Case =>
        \* the change is no error
        /\ (rounds[2].cmd = "apply" /\ rounds[2].status = "error")
              => SomeCallFailed(rounds[2])
        \* the former leader, and any other non-leader, does nothing only
        \* the leader does
        /\ ~IsLeaderRound(rounds[2])
              => \A k \in 1..Len(rounds[2].calls) :
                    rounds[2].calls[k].op \notin LeaderOnlyCalls
        \* the new leader of RKE2 reconciles against its own recorded members
        /\ (/\ IsLeaderRound(rounds[2])
            /\ rounds[2].service = "rke2"
            /\ Truthy(rounds[2].in_local_state, "api_ready")
            /\ rounds[2].cmd = "health" => rounds[2].status = "completed")
              => /\ Called(rounds[2], "remove_stale_nodes")
                 /\ C36_OwnDisappeared(rounds[2]) # {}
                       => Called(rounds[2], "get_k8s_nodes")
                 /\ \A n \in C36_OwnDisappeared(rounds[2]) :
                       (/\ hash_node_id(n) \in rounds[2].in_managed.k8s_nodes
                        /\ \E k \in CallsOf(rounds[2], "get_k8s_nodes") :
                              rounds[2].calls[k].ok)
                       => \E k \in CallsOf(rounds[2], "cordon_node") :
                              rounds[2].calls[k].arg = hash_node_id(n)
        \* the new leader of Redis forms or reconciles the cluster once every
        \* member is ready
        /\ (/\ IsLeaderRound(rounds[2])
            /\ rounds[2].service = "redis"
            /\ rounds[2].cmd = "apply"
            /\ rounds[2].status = "completed")
              => Called(rounds[2], "create_redis_cluster")

\* the new leader B removes C, which left, from the Kubernetes cluster in
\* its first round as leader
C36_Witness ==
    /\ C36_Case
    /\ rounds[2].service = "rke2"
    /\ rounds[1].state.cluster.leader_node = "A"
    /\ IsLeaderRound(rounds[2])
    /\ C36_OwnDisappeared(rounds[2]) # {}
    /\ \A n \in C36_OwnDisappeared(rounds[2]) : hash_node_id(n) \in DeletesOf(rounds[2])
    /\ rounds[2].status = "completed"


(***************************************************************************)
(* C37. CockroachDB readiness publication: every node whose apply reaches  *)
(* status completed has published cockroachdb_node_ready = "true" for      *)
(* itself in that round or in an earlier round.                            *)
(***************************************************************************)
C37_PublishesReady(r) ==
    /\ "cockroachdb_node_ready" \in DOMAIN r.node_properties
    /\ r.node_properties["cockroachdb_node_ready"] = "true"

\* checked on the runs whose every round so far is still recorded, all of
\* them rounds of one node, starting with no property published
C37_ReadinessPublished ==
    \A i \in 1..Len(rounds) :
        (/\ roundNo = Len(rounds)
         /\ rounds[i].service = "cockroachdb"
         /\ rounds[i].cmd = "apply"
         /\ rounds[i].status = "completed")
        => \E j \in 1..i : C37_PublishesReady(rounds[j])


(***************************************************************************)
(* C38. Knot TSIG key stability: across any sequence of apply rounds,      *)
(* including rounds that end postponed, the leader generates at most one   *)
(* TSIG key; once a key has been generated, every later round configures   *)
(* Knot with that same key.                                                *)
(***************************************************************************)
\* round r generated a TSIG key: generate_tsig_key draws 32 fresh random
\* bytes on every call, so two such rounds hold two different keys
C38_Generated(r) ==
    /\ r.service = "knot"
    /\ r.cmd = "apply"
    /\ \E k \in CallsOf(r, "generate_tsig_key") : r.calls[k].ok

\* a round that generated a key is not followed, under the StateView it
\* left behind, by a round that generates another one and configures Knot
\* with it
C38_TsigKeyStability ==
    ~(/\ Len(rounds) = 2
      /\ C38_Generated(rounds[1])
      /\ UnchangedView(rounds[1], rounds[2])
      /\ C38_Generated(rounds[2]))


(***************************************************************************)
(* C39. swarm-cloud-api schema initialization gating: the schema-sync step *)
(* runs only on the node its StateView names as leader and only while      *)
(* swarm_cloud_api_schema_initialized is absent from that StateView; while *)
(* the flag is absent a non-leader's apply returns postponed without       *)
(* writing configuration or restarting the service.                        *)
(***************************************************************************)
C39_FlagShown(r) ==
    \E p \in r.state.clusterProperties :
        p.name = "swarm_cloud_api_schema_initialized" /\ p.value = "true"

C39_SchemaGating ==
    \A i \in 1..Len(rounds) :
        (rounds[i].service = "swarm-cloud-api" /\ rounds[i].cmd = "apply") =>
            /\ Called(rounds[i], "schema-sync")
                  => IsLeaderRound(rounds[i]) /\ ~C39_FlagShown(rounds[i])
            /\ (~IsLeaderRound(rounds[i]) /\ ~C39_FlagShown(rounds[i]))
                  => /\ rounds[i].status = "postponed"
                     /\ ~Called(rounds[i], "create_config_file")
                     /\ ~Called(rounds[i], "systemctl")

\* a non-leader with CockroachDB ready is told to wait for the leader, after
\* the leader's own schema sync has failed
C39_Witness ==
    /\ rounds # << >>
    /\ Last(rounds).service = "swarm-cloud-api"
    /\ Last(rounds).cmd = "apply"
    /\ ~IsLeaderRound(Last(rounds))
    /\ Last(rounds).error_message = "Waiting for leader to initialize schema"
    /\ Last(rounds).status = "postponed"
    /\ Last(rounds).calls = << >>
    /\ ~Last(rounds).in_managed.schema

====
